---- MODULE Spec2Model ----
(***************************************************************************)
(* A model of the execution core of the WASM smart-contract VM host: the   *)
(* dispatcher (src/unnamed/part_000, package host) and the metering        *)
(* context (src/vmhost/contexts/metering.go).                              *)
(*                                                                         *)
(* The host is a stack of synchronous calls host -> guest -> host -> ...   *)
(* A host operation that enters guest code is cut at the guest entry: the  *)
(* part before it is one action, the part after the guest returned is      *)
(* another, and the operation's frame waits on the control stack `calls`   *)
(* in between.  Guest code is the environment: it picks, one step at a     *)
(* time, among the host imports.                                           *)
(***************************************************************************)
EXTENDS Integers, Sequences, FiniteSets, TLC

VARIABLES
    bigInt,        \* bigint context: [active, stateStack]
    output,        \* output context: [active, stateStack]
    runtime,       \* runtime context: [active, stateStack]
    storage,       \* storage context: [active (the bound address), stateStack]
    metering,      \* metering context: initialGasProvided, initialCost, ...
    instances,     \* the runtime's engine instance and its instance stack
    hostContexts,  \* the process-wide registry of host-context ids
    events,        \* what the dispatch in progress sent, stored and delivered
    chain,         \* committed storage: address -> value under the async key
    history,       \* the callbacks committed since the pending calls were stored
    calls,         \* control stack: host operations suspended in guest code
    last           \* what the last step returned (observation of the run)

vars == <<bigInt, output, runtime, storage, metering, instances,
          hostContexts, events, chain, history, calls, last>>

(***************************************************************************)
(* Bounds of the model.                                                    *)
(***************************************************************************)
MaxDepth == 3      \* guest frames nested at once
MaxGas == 5        \* gas provided to a dispatch or asked for a sub-call
MaxWork == 1       \* units of work (a bigint handle and a return-data entry) per frame
UintBits == 4      \* bits of an unsigned integer (64 in the program)

(***************************************************************************)
(* The gas schedule (configuration read by the metering context).          *)
(***************************************************************************)
GetCodeCost == 0
AoTPreparePerByte == 1
CompilePerByte == 1
CreateContractCost == 0

Nil == "nil"

(***************************************************************************)
(* The blockchain hook's world: which addresses hold code.                 *)
(***************************************************************************)
Contracts == {"A"}          \* valid code, this shard
InvalidContracts == {"V"}        \* code the engine rejects
Addresses == Contracts \cup InvalidContracts \cup {"N"}   \* "N" holds no code
HasCode(addr) == addr \in Contracts \cup InvalidContracts
CodeLen(addr) == IF addr = "B" THEN 2 ELSE 1
CodeIsValid(addr) == addr \in Contracts
ExportedFunctions == {"f", "callBack", "onError"}
InitFunctionName == "init"
InitFunctionNameEth == "solidity.ctor"
CallBackFunctionName == "callBack"
protocolBuiltinFunctions == {"builtin"}
FunctionNames == {"f", "init", "solidity.ctor", "callBack", "missing", "builtin"}
InitFunctionNames == {InitFunctionName, InitFunctionNameEth}

Last(s) == s[Len(s)]
Front(s) == SubSeq(s, 1, Len(s) - 1)

(***************************************************************************)
(* State stacks of the bigint, output, runtime and storage contexts.       *)
(***************************************************************************)
PushState(c) == [c EXCEPT !.stateStack = Append(@, c.active)]

PopSetActiveState(c) ==
    IF c.stateStack = <<>> THEN c
    ELSE [active |-> Last(c.stateStack), stateStack |-> Front(c.stateStack)]

PopDiscard(c) ==
    IF c.stateStack = <<>> THEN c
    ELSE [c EXCEPT !.stateStack = Front(@)]

\* Output only: the current (child) state is kept on top of the snapshot.
PopMergeActiveState(c) ==
    IF c.stateStack = <<>> THEN c
    ELSE LET prev == Last(c.stateStack) IN
         [active |-> [returnCode |-> c.active.returnCode,
                      returnData |-> prev.returnData \o c.active.returnData,
                      transfers  |-> prev.transfers \o c.active.transfers,
                      deployed   |-> prev.deployed \cup c.active.deployed,
                      storageUpdates |->
                          c.active.storageUpdates @@ prev.storageUpdates,
                      accounts |-> c.active.accounts @@ prev.accounts],
          stateStack |-> Front(c.stateStack)]

EmptyMap == [x \in {} |-> Nil]
\* accounts: the output accounts, address -> [gasUsed, outputTransfers]
BlankOutput == [returnCode |-> "Ok", returnData |-> <<>>, transfers |-> <<>>,
                deployed |-> {}, storageUpdates |-> EmptyMap,
                accounts |-> EmptyMap]
CensorVMOutput(c) == [c EXCEPT !.active = BlankOutput]

\* the async-context info a frame starts with (no context, no call)
NoAsyncInfo(caller) ==
    [callerAddr |-> caller, returnData |-> <<>>, asyncContextMap |-> EmptyMap]

BlankRuntime ==
    [vmInput |-> [callerAddr |-> Nil, gasProvided |-> 0, gasLocked |-> 0,
                  callType |-> "DirectCall", callValue |-> 0],
     scAddress |-> Nil, callFunction |-> Nil, readOnly |-> FALSE,
     asyncContextInfo |-> NoAsyncInfo(Nil)]

\* runtime.InitStateFromContractCallInput
RuntimeInitStateFromContractCallInput(c, input) ==
    [c EXCEPT !.active.vmInput = input.vmInput,
              !.active.scAddress = input.recipientAddr,
              !.active.callFunction = input.function,
              !.active.asyncContextInfo = NoAsyncInfo(input.vmInput.callerAddr)]

\* bigInt.InitState: a fresh handle table
BigIntInitState(c) == [c EXCEPT !.active = 0]
\* storage.SetAddress
SetAddress(c, addr) == [c EXCEPT !.active = addr]

(***************************************************************************)
(* The host state the operations below read and write.                     *)
(***************************************************************************)
H == [bigInt |-> bigInt, output |-> output, runtime |-> runtime,
      storage |-> storage, metering |-> metering, instances |-> instances,
      hostContexts |-> hostContexts, events |-> events]

\* The four contexts ExecuteOnDestContext snapshots: active state and stack.
ContextsOf(h) == [bigInt |-> h.bigInt, output |-> h.output,
                  runtime |-> h.runtime, storage |-> h.storage]
StackDepths(h) == [bigInt |-> Len(h.bigInt.stateStack),
                   output |-> Len(h.output.stateStack),
                   runtime |-> Len(h.runtime.stateStack),
                   storage |-> Len(h.storage.stateStack),
                   metering |-> Len(h.metering.stateStack)]
\* What execute and CreateNewContract must leave as they found it.
EngineOf(h) == [depth |-> Len(h.instances.instanceStack), ids |-> h.hostContexts]

(***************************************************************************)
(* Engine instances (runtime) and the host-context registry.               *)
(***************************************************************************)
NoInstance == [pointsUsed |-> 0, live |-> FALSE]
NewInstance == [pointsUsed |-> 0, live |-> TRUE]

GetPointsUsed(h) == h.instances.instance.pointsUsed
SetPointsUsed(h, gas) == [h EXCEPT !.instances.instance.pointsUsed = gas]

PushInstance(h) ==
    [h EXCEPT !.instances.instanceStack = Append(@, h.instances.instance)]

PopInstance(h) ==
    IF h.instances.instanceStack = <<>> THEN h
    ELSE [h EXCEPT !.instances = [instance |-> Last(@.instanceStack),
                                  instanceStack |-> Front(@.instanceStack)]]

\* StartWasmerInstance, when the engine accepts the code
StartWasmerInstance(h) == [h EXCEPT !.instances.instance = NewInstance]

NextHostContextID(h) ==
    CHOOSE id \in 0..Cardinality(h.hostContexts) : id \notin h.hostContexts
AddHostContext(h, id) == [h EXCEPT !.hostContexts = @ \cup {id}]
RemoveHostContext(h, id) == [h EXCEPT !.hostContexts = @ \ {id}]

(***************************************************************************)
(* Metering (src/vmhost/contexts/metering.go).                             *)
(***************************************************************************)
\* math.SubUint64: 0 when the subtraction would underflow
SubUint64(a, b) == IF b > a THEN 0 ELSE a - b
\* math.AddUint64 (its saturation at 2^64-1 is out of the model's range)
AddUint64(a, b) == a + b

UseGas(h, gas) == SetPointsUsed(h, AddUint64(GetPointsUsed(h), gas))

\* a variant of RestoreGas that subtracts whatever the gas used
RestoreGasSaturating(h, gas) == SetPointsUsed(h, SubUint64(GetPointsUsed(h), gas))

RestoreGas(h, gas) ==
    IF gas <= GetPointsUsed(h)
    THEN SetPointsUsed(h, SubUint64(GetPointsUsed(h), gas))
    ELSE h

GasLeft(h) ==
    IF h.metering.gasForExecution < GetPointsUsed(h) THEN 0
    ELSE h.metering.gasForExecution - GetPointsUsed(h)

\* uint64(value) of an int64: the unsigned integers of the model are
\* UintBits wide, which holds every amount of gas the model reaches
ToUint64(value) == value % (2 ^ UintBits)

BoundGasLimit(h, value) ==
    LET gasLeft == GasLeft(h)
        limit == ToUint64(value)
    IN IF gasLeft < limit THEN gasLeft ELSE limit

\* a variant of deductInitialGas that refuses a cost equal to the gas provided
deductInitialGasStrict(h, codeLength, baseCost, costPerByte) ==
    LET initialCost == AddUint64(baseCost, codeLength * costPerByte) IN
    IF initialCost >= h.runtime.active.vmInput.gasProvided
    THEN [h |-> h, err |-> "ErrNotEnoughGas"]
    ELSE [h |-> [h EXCEPT !.metering.initialCost = initialCost,
                          !.metering.gasForExecution =
                              h.runtime.active.vmInput.gasProvided - initialCost],
          err |-> Nil]

deductInitialGas(h, codeLength, baseCost, costPerByte) ==
    LET initialCost == AddUint64(baseCost, codeLength * costPerByte) IN
    IF initialCost > h.runtime.active.vmInput.gasProvided
    THEN [h |-> h, err |-> "ErrNotEnoughGas"]
    ELSE [h |-> [h EXCEPT !.metering.initialCost = initialCost,
                          !.metering.gasForExecution =
                              h.runtime.active.vmInput.gasProvided - initialCost],
          err |-> Nil]

DeductInitialGasForExecution(h, codeLength) ==
    deductInitialGas(h, codeLength, GetCodeCost, AoTPreparePerByte)

DeductInitialGasForDirectDeployment(h, codeLength) ==
    deductInitialGas(h, codeLength, CreateContractCost, CompilePerByte)

DeductInitialGasForIndirectDeployment(h, codeLength) ==
    deductInitialGas(h, codeLength, 0, CompilePerByte)

\* metering.UnlockGasIfAsyncStep: gas locked for the callback becomes usable
UnlockGasIfAsyncStep(h) ==
    [h EXCEPT !.metering.gasForExecution =
                  AddUint64(@, h.runtime.active.vmInput.gasLocked),
              !.runtime.active.vmInput.gasLocked = 0]

(***************************************************************************)
(* Final gas accounting (metering.go:138-290) over the output accounts.    *)
(***************************************************************************)
RECURSIVE SumFun(_)
SumFun(f) == IF DOMAIN f = {} THEN 0
             ELSE LET x == CHOOSE x \in DOMAIN f : TRUE
                  IN f[x] + SumFun([y \in DOMAIN f \ {x} |-> f[y]])

NewOutputAccount == [gasUsed |-> 0, outputTransfers |-> <<>>]
\* output.GetOutputAccount: the account, made if it is not there yet
GetOutputAccount(h, address) ==
    IF address \in DOMAIN h.output.active.accounts THEN h
    ELSE [h EXCEPT !.output.active.accounts = (address :> NewOutputAccount) @@ @]
GetOutputAccounts(h) == h.output.active.accounts
GetContextAddress(h) == h.runtime.active.scAddress

GetGasProvided(h) == h.metering.initialGasProvided
GasSpentByContract(h) == AddUint64(h.metering.initialCost, GetPointsUsed(h))

\* a variant that forgets the gas locked for the callback
getGasTransferredWithoutLocked(account) ==
    SumFun([i \in DOMAIN account.outputTransfers |->
               account.outputTransfers[i].gasLimit])

getGasTransferredByAccount(account) ==
    SumFun([i \in DOMAIN account.outputTransfers |->
               AddUint64(account.outputTransfers[i].gasLimit,
                         account.outputTransfers[i].gasLocked)])

getGasUsedByAllOtherAccounts(h, outputAccounts) ==
    SumFun([address \in DOMAIN outputAccounts |->
               AddUint64(IF address # GetContextAddress(h)
                            /\ address \in DOMAIN h.metering.gasUsedByAccounts
                         THEN h.metering.gasUsedByAccounts[address] ELSE 0,
                         getGasTransferredByAccount(outputAccounts[address]))])

updateSCGasUsed(h) ==
    LET currentAccountAddress == GetContextAddress(h)
        h1 == GetOutputAccount(h, currentAccountAddress)
        outputAccounts == GetOutputAccounts(h1)
        gasTransferredByCurrentAccount ==
            getGasTransferredByAccount(outputAccounts[currentAccountAddress])
        gasUsedByOthers == getGasUsedByAllOtherAccounts(h1, outputAccounts)
        gasUsed == SubUint64(SubUint64(GasSpentByContract(h1),
                                       gasTransferredByCurrentAccount),
                             gasUsedByOthers)
    IN [h1 EXCEPT !.metering.gasUsedByAccounts =
                      (currentAccountAddress :> gasUsed) @@ @]

\* vmOutput.OutputAccounts are the output context's accounts
setGasUsedToOutputAccounts(h) ==
    LET used == h.metering.gasUsedByAccounts
        h1 == [h EXCEPT !.output.active.accounts =
                  [address \in DOMAIN @ |->
                      [@[address] EXCEPT !.gasUsed =
                          IF address \in DOMAIN used THEN used[address] ELSE 0]]]
    IN [h |-> h1,
        err |-> IF DOMAIN used \subseteq DOMAIN h.output.active.accounts
                THEN Nil
                ELSE "expected OutputAccount has used gas but is missing"]

getCurrentTotalUsedGas(h) ==
    LET outputAccounts == GetOutputAccounts(h) IN
    SumFun([address \in DOMAIN outputAccounts |->
               AddUint64(outputAccounts[address].gasUsed,
                         getGasTransferredByAccount(outputAccounts[address]))])

checkGas(h, gasRemaining) ==
    IF AddUint64(getCurrentTotalUsedGas(h), gasRemaining) # GetGasProvided(h)
    THEN "ErrInputAndOutputGasDoesNotMatch"
    ELSE Nil

\* gasRemaining: vmOutput.GasRemaining
UpdateGasStateOnSuccess(h, gasRemaining) ==
    LET s == setGasUsedToOutputAccounts(updateSCGasUsed(h)) IN
    IF s.err # Nil THEN s
    ELSE [h |-> s.h, err |-> checkGas(s.h, gasRemaining)]

UpdateGasStateOnFailure(h) ==
    LET h1 == GetOutputAccount(h, GetContextAddress(h)) IN
    [h1 EXCEPT !.output.active.accounts[GetContextAddress(h)].gasUsed =
                   AddUint64(@, GetGasProvided(h1))]

\* a variant of unlockGasIfAsyncCallback that unlocks whatever the call type
unlockGasForEveryCallType(vmInput) ==
    [vmInput EXCEPT !.gasProvided = AddUint64(@, vmInput.gasLocked),
                    !.gasLocked = 0]

\* lines 299-309 and 74-79
unlockGasIfAsyncCallback(vmInput) ==
    IF vmInput.callType # "AsynchronousCallBack" THEN vmInput
    ELSE [vmInput EXCEPT !.gasProvided = AddUint64(@, vmInput.gasLocked),
                         !.gasLocked = 0]

MeteringInitState(m) ==
    [m EXCEPT !.initialGasProvided = 0, !.initialCost = 0,
              !.gasForExecution = 0, !.gasUsedByAccounts = EmptyMap]

\* the metering state and the input as the function leaves them
MeteringInitStateFromContractCallInput(m, vmInput) ==
    LET input == unlockGasIfAsyncCallback(vmInput) IN
    [metering |-> [MeteringInitState(m) EXCEPT
                       !.initialGasProvided = input.gasProvided,
                       !.gasForExecution = input.gasProvided],
     vmInput |-> input]

MeteringState(m) ==
    [initialGasProvided |-> m.initialGasProvided,
     initialCost |-> m.initialCost, gasForExecution |-> m.gasForExecution,
     gasUsedByAccounts |-> m.gasUsedByAccounts]

MeteringPushState(m) == [m EXCEPT !.stateStack = Append(@, MeteringState(m))]

\* a variant of PopSetActiveState that keeps the active per-account gas map
MeteringPopSetActiveStateKeepsGasUsed(m) ==
    IF m.stateStack = <<>> THEN m
    ELSE [Last(m.stateStack) EXCEPT !.gasUsedByAccounts = m.gasUsedByAccounts]
             @@ [stateStack |-> Front(m.stateStack)]

MeteringPopSetActiveState(m) ==
    IF m.stateStack = <<>> THEN m
    ELSE Last(m.stateStack) @@ [stateStack |-> Front(m.stateStack)]

\* a variant of PopDiscard that makes the snapshot the active state
MeteringPopDiscardSetsActive(m) ==
    IF m.stateStack = <<>> THEN m
    ELSE Last(m.stateStack) @@ [stateStack |-> Front(m.stateStack)]

MeteringPopDiscard(m) ==
    IF m.stateStack = <<>> THEN m ELSE [m EXCEPT !.stateStack = Front(@)]

\* a variant of addToGasUsedByAccounts that writes the snapshot's value over
\* the active one
addToGasUsedByAccountsOverwrites(used, gasUsed) == gasUsed @@ used

addToGasUsedByAccounts(used, gasUsed) ==
    [address \in DOMAIN used \cup DOMAIN gasUsed |->
        (IF address \in DOMAIN used THEN used[address] ELSE 0)
        + (IF address \in DOMAIN gasUsed THEN gasUsed[address] ELSE 0)]

MeteringPopMergeActiveState(m) ==
    IF m.stateStack = <<>> THEN m
    ELSE LET prevState == Last(m.stateStack) IN
         [initialGasProvided |-> prevState.initialGasProvided,
          initialCost |-> prevState.initialCost,
          gasForExecution |-> prevState.gasForExecution,
          gasUsedByAccounts |-> addToGasUsedByAccounts(
              m.gasUsedByAccounts, prevState.gasUsedByAccounts),
          stateStack |-> Front(m.stateStack)]

\* lines 429-436
UseGasBounded(h, gasToUse) ==
    IF GasLeft(h) <= gasToUse THEN [h |-> h, err |-> "ErrNotEnoughGas"]
    ELSE [h |-> UseGas(h, gasToUse), err |-> Nil]

(***************************************************************************)
(* Output context operations the dispatcher consumes.                      *)
(***************************************************************************)
\* output.Transfer; `funds` tells whether the sender's balance covers value
Transfer(h, destination, sender, gasLimit, value, funds) ==
    IF ~funds THEN [h |-> h, err |-> "ErrTransferInsufficientFunds"]
    ELSE [h |-> [h EXCEPT !.output.active.transfers =
                     Append(@, [to |-> destination, from |-> sender,
                                value |-> value, gasLimit |-> gasLimit])],
          err |-> Nil]

\* output.CreateVMOutputInCaseOfError: a fresh output carrying the error
CreateVMOutputInCaseOfError(h, err) ==
    [returnCode |-> err, gasRemaining |-> 0, returnData |-> <<>>,
     transfers |-> <<>>, storageUpdates |-> EmptyMap]

\* output.GetVMOutput: the active output state and the gas left
GetVMOutput(h) ==
    [returnCode |-> h.output.active.returnCode, gasRemaining |-> GasLeft(h),
     returnData |-> h.output.active.returnData,
     transfers |-> h.output.active.transfers,
     storageUpdates |-> h.output.active.storageUpdates]

\* output.AddToActiveState: absorb the output of a built-in function
AddToActiveState(h, vmOutput) ==
    [h EXCEPT !.output.active.returnData = @ \o vmOutput.returnData]

DeployCode(h, address) == [h EXCEPT !.output.active.deployed = @ \cup {address}]

(***************************************************************************)
(* execute (part_000:367-428), cut at the guest entry.                     *)
(***************************************************************************)
\* a variant of isInitFunctionBeingCalled that forgets the Ethereum alias
isInitFunctionNameBeingCalled(h) ==
    h.runtime.active.callFunction = InitFunctionName

isInitFunctionBeingCalled(h) ==
    h.runtime.active.callFunction \in {InitFunctionName, InitFunctionNameEth}

isBuiltinFunctionBeingCalled(h) ==
    h.runtime.active.callFunction \in protocolBuiltinFunctions

\* bi: what ProcessBuiltInFunction answers, [err, gasRemaining]
callBuiltinFunction(h, input, bi) ==
    IF bi.err # Nil
    THEN [h |-> UseGas(h, input.vmInput.gasProvided), err |-> bi.err]
    ELSE LET h1 == IF bi.gasRemaining < input.vmInput.gasProvided
                   THEN UseGas(h, input.vmInput.gasProvided - bi.gasRemaining)
                   ELSE h
         IN [h |-> AddToActiveState(h1, [returnData |-> <<"builtin">>]),
             err |-> Nil]

\* the three early returns taken after PushInstance: pop, unregister, fail
\* a variant of executeFail that forgets the instance it pushed
executeFailKeepsInstance(h, idContext, err) ==
    [h |-> RemoveHostContext(h, idContext), err |-> err,
     entered |-> FALSE, idContext |-> idContext]

executeFail(h, idContext, err) ==
    [h |-> RemoveHostContext(PopInstance(h), idContext), err |-> err,
     entered |-> FALSE, idContext |-> idContext]

\* runtime.GetFunctionToCall: the export named by the runtime's call function
GetFunctionToCall(h) ==
    IF h.runtime.active.callFunction \in ExportedFunctions THEN Nil
    ELSE "ErrFuncNotFound"

\* execute up to the call of the guest function
executeBegin(h, input, bi) ==
    IF isBuiltinFunctionBeingCalled(h)
    THEN LET r == callBuiltinFunction(h, input, bi) IN
         [h |-> r.h, err |-> r.err, entered |-> FALSE, idContext |-> -1]
    ELSE
    LET h1 == UseGas(h, input.vmInput.gasProvided)
        sc == h1.runtime.active.scAddress
    IN
    IF isInitFunctionBeingCalled(h1)
    THEN [h |-> h1, err |-> "ErrInitFuncCalledInRun", entered |-> FALSE,
          idContext |-> -1]
    ELSE IF ~HasCode(sc)
    THEN [h |-> h1, err |-> "ErrContractNotFound", entered |-> FALSE,
          idContext |-> -1]
    ELSE
    LET d == DeductInitialGasForExecution(h1, CodeLen(sc)) IN
    IF d.err # Nil
    THEN [h |-> d.h, err |-> d.err, entered |-> FALSE, idContext |-> -1]
    ELSE
    LET idContext == NextHostContextID(d.h)
        h2 == PushInstance(AddHostContext(d.h, idContext))
    IN
    IF ~CodeIsValid(sc)
    THEN executeFail(h2, idContext, "ErrContractInvalid")
    ELSE
    LET h3 == StartWasmerInstance(h2) IN
    IF GetFunctionToCall(h3) # Nil
    THEN executeFail(h3, idContext, GetFunctionToCall(h3))
    ELSE [h |-> h3, err |-> Nil, entered |-> TRUE, idContext |-> idContext]

\* handleBreakpointIfAny: the error a guest outcome stands for
handleBreakpointIfAny(outcome) ==
    CASE outcome = "ok" -> Nil
      [] outcome = "okReturnCodeNotOk" -> Nil
      [] outcome = "BreakpointOutOfGas" -> "ErrNotEnoughGas"
      [] outcome = "BreakpointSignalError" -> "ErrSignalError"
      [] OTHER -> "ErrExecutionFailed"

\* execute after the guest function returned with error guestErr
\* a variant of executeEnd that does not look at the return code
executeEndIgnoresReturnCode(h, idContext, guestErr) ==
    IF guestErr # Nil
    THEN executeFail(h, idContext, guestErr)
    ELSE LET h1 == UnlockGasIfAsyncStep(h)
             gasToRestoreToCaller == GasLeft(h1)
         IN [h |-> RemoveHostContext(RestoreGas(PopInstance(h1),
                                                gasToRestoreToCaller), idContext),
             err |-> Nil, entered |-> FALSE, idContext |-> idContext]

\* a variant of executeEnd that restores no gas to the caller
executeEndRestoresNothing(h, idContext, guestErr) ==
    IF guestErr # Nil
    THEN executeFail(h, idContext, guestErr)
    ELSE IF h.output.active.returnCode # "Ok"
    THEN executeFail(h, idContext, "ErrReturnCodeNotOk")
    ELSE [h |-> RemoveHostContext(PopInstance(UnlockGasIfAsyncStep(h)), idContext),
          err |-> Nil, entered |-> FALSE, idContext |-> idContext]

executeEnd(h, idContext, guestErr) ==
    IF guestErr # Nil
    THEN executeFail(h, idContext, guestErr)
    ELSE IF h.output.active.returnCode # "Ok"
    THEN executeFail(h, idContext, "ErrReturnCodeNotOk")
    ELSE
    LET h1 == UnlockGasIfAsyncStep(h)
        gasToRestoreToCaller == GasLeft(h1)
        h2 == RestoreGas(PopInstance(h1), gasToRestoreToCaller)
    IN [h |-> RemoveHostContext(h2, idContext), err |-> Nil,
        entered |-> FALSE, idContext |-> idContext]

(***************************************************************************)
(* ExecuteOnDestContext (part_000:147-214).                                *)
(***************************************************************************)
\* a variant that takes the VMOutput after the contexts were popped
finishExecuteOnDestContextOutputAfterPop(h, executeErr) ==
    LET popped == [h EXCEPT !.bigInt = PopSetActiveState(@),
                            !.output = IF executeErr # Nil
                                       THEN PopSetActiveState(@)
                                       ELSE PopMergeActiveState(@),
                            !.runtime = PopSetActiveState(@),
                            !.storage = PopSetActiveState(@)]
    IN [h |-> popped,
        vmOutput |-> IF executeErr # Nil
                     THEN CreateVMOutputInCaseOfError(h, executeErr)
                     ELSE GetVMOutput(popped)]

\* a variant that merges the failed sub-call's output instead of dropping it
finishExecuteOnDestContextMergesOutput(h, executeErr) ==
    [h |-> [h EXCEPT !.bigInt = PopSetActiveState(@),
                     !.output = PopMergeActiveState(@),
                     !.runtime = PopSetActiveState(@),
                     !.storage = PopSetActiveState(@)],
     vmOutput |-> IF executeErr # Nil
                  THEN CreateVMOutputInCaseOfError(h, executeErr)
                  ELSE GetVMOutput(h)]

finishExecuteOnDestContext(h, executeErr) ==
    IF executeErr # Nil
    THEN [h |-> [h EXCEPT !.bigInt = PopSetActiveState(@),
                          !.output = PopSetActiveState(@),
                          !.runtime = PopSetActiveState(@),
                          !.storage = PopSetActiveState(@)],
          vmOutput |-> CreateVMOutputInCaseOfError(h, executeErr)]
    ELSE [h |-> [h EXCEPT !.bigInt = PopSetActiveState(@),
                          !.output = PopMergeActiveState(@),
                          !.runtime = PopSetActiveState(@),
                          !.storage = PopSetActiveState(@)],
          vmOutput |-> GetVMOutput(h)]

\* lines 150-162: snapshot the four contexts and bind the sub-call's input
pushExecuteOnDestContext(h, input) ==
    LET h1 == [h EXCEPT !.bigInt = BigIntInitState(PushState(@)),
                        !.output = CensorVMOutput(PushState(@)),
                        !.runtime = RuntimeInitStateFromContractCallInput(
                                        PushState(@), input)]
    IN [h1 EXCEPT !.storage = SetAddress(PushState(@),
                                         h1.runtime.active.scAddress)]

\* lines 147-178: up to the guest entry, or to the first error
ExecuteOnDestContextBegin(h, input, funds, bi) ==
    LET h1 == pushExecuteOnDestContext(h, input)
        t == Transfer(h1, input.recipientAddr, input.vmInput.callerAddr, 0,
                      input.vmInput.callValue, funds)
    IN IF t.err # Nil
       THEN [h |-> t.h, err |-> t.err, entered |-> FALSE, idContext |-> -1,
             executed |-> FALSE, engine |-> EngineOf(t.h)]
       ELSE LET e == executeBegin(t.h, input, bi) IN
            [h |-> e.h, err |-> e.err, entered |-> e.entered,
             idContext |-> e.idContext, executed |-> TRUE,
             engine |-> EngineOf(t.h)]

(***************************************************************************)
(* ExecuteOnSameContext (part_000:216-267).                                *)
(***************************************************************************)
\* a variant that restores the output snapshot after a success
finishExecuteOnSameContextRestoresOutput(h, executeErr) ==
    IF executeErr # Nil
    THEN [h EXCEPT !.bigInt = PopSetActiveState(@),
                   !.output = PopSetActiveState(@),
                   !.runtime = PopSetActiveState(@)]
    ELSE [h EXCEPT !.bigInt = PopDiscard(@),
                   !.output = PopSetActiveState(@),
                   !.runtime = PopSetActiveState(@)]

\* a variant that discards the runtime snapshot's entry twice on success
finishExecuteOnSameContextPopsRuntimeTwice(h, executeErr) ==
    IF executeErr # Nil
    THEN [h EXCEPT !.bigInt = PopSetActiveState(@),
                   !.output = PopSetActiveState(@),
                   !.runtime = PopSetActiveState(@)]
    ELSE [h EXCEPT !.bigInt = PopDiscard(@),
                   !.output = PopDiscard(@),
                   !.runtime = PopSetActiveState(PopSetActiveState(@))]

\* a variant that leaves the snapshots on the stacks after a success
finishExecuteOnSameContextKeepsStates(h, executeErr) ==
    IF executeErr # Nil
    THEN [h EXCEPT !.bigInt = PopSetActiveState(@),
                   !.output = PopSetActiveState(@),
                   !.runtime = PopSetActiveState(@)]
    ELSE [h EXCEPT !.runtime = PopSetActiveState(@)]

finishExecuteOnSameContext(h, executeErr) ==
    IF executeErr # Nil
    THEN [h EXCEPT !.bigInt = PopSetActiveState(@),
                   !.output = PopSetActiveState(@),
                   !.runtime = PopSetActiveState(@)]
    ELSE [h EXCEPT !.bigInt = PopDiscard(@),
                   !.output = PopDiscard(@),
                   !.runtime = PopSetActiveState(@)]

pushExecuteOnSameContext(h, input) ==
    [h EXCEPT !.bigInt = PushState(@),
              !.output = PushState(@),
              !.runtime = RuntimeInitStateFromContractCallInput(
                              PushState(@), input)]

ExecuteOnSameContextBegin(h, input, funds, bi) ==
    LET h1 == pushExecuteOnSameContext(h, input)
        t == Transfer(h1, input.recipientAddr, input.vmInput.callerAddr, 0,
                      input.vmInput.callValue, funds)
    IN IF t.err # Nil
       THEN [h |-> t.h, err |-> t.err, entered |-> FALSE, idContext |-> -1,
             executed |-> FALSE, engine |-> EngineOf(t.h)]
       ELSE LET e == executeBegin(t.h, input, bi) IN
            [h |-> e.h, err |-> e.err, entered |-> e.entered,
             idContext |-> e.idContext, executed |-> TRUE,
             engine |-> EngineOf(t.h)]

(***************************************************************************)
(* CreateNewContract (part_000:280-364), cut at the call of init.          *)
(***************************************************************************)
NewContractAddress == "C"

\* the early returns taken after PushInstance
\* a variant of createFail that leaves the runtime state pushed
createFailKeepsRuntimeState(h, idContext, err) ==
    [h |-> RemoveHostContext(PopInstance(h), idContext), err |-> err,
     entered |-> FALSE, idContext |-> idContext]

createFail(h, idContext, err) ==
    [h |-> RemoveHostContext(
               [PopInstance(h) EXCEPT !.runtime = PopSetActiveState(@)],
               idContext),
     err |-> err, entered |-> FALSE, idContext |-> idContext]

\* the early returns taken after runtime.PushState and before PushInstance
createFailEarly(h, err) ==
    [h |-> [h EXCEPT !.runtime = PopSetActiveState(@)], err |-> err,
     entered |-> FALSE, idContext |-> -1]

\* lines 346-363: after callInitFunction returned initErr
CreateNewContractEnd(h, idContext, initErr) ==
    IF initErr # Nil THEN createFail(h, idContext, initErr)
    ELSE
    LET h1 == DeployCode(h, NewContractAddress)
        gasToRestoreToCaller == GasLeft(h1)
        h2 == RemoveHostContext(
                  [PopInstance(h1) EXCEPT !.runtime = PopSetActiveState(@)],
                  idContext)
    IN [h |-> RestoreGas(h2, gasToRestoreToCaller), err |-> Nil,
        entered |-> FALSE, idContext |-> idContext]

\* input: the create input; env: what the collaborators answer
\*   newAddress (blockchain.NewAddress succeeds), funds (the transfer),
\*   code: [len, valid (engine accepts), verified (VerifyContractCode),
\*          hasInit (the init function is exported)]
CreateNewContractBegin(h, input, env) ==
    LET h1 == UseGas(h, input.vmInput.gasProvided) IN
    IF h1.runtime.active.readOnly
    THEN [h |-> h1, err |-> "ErrInvalidCallOnReadOnlyMode", entered |-> FALSE,
          idContext |-> -1]
    ELSE
    LET h2 == [h1 EXCEPT !.runtime = [PushState(@) EXCEPT
                                          !.active.vmInput = input.vmInput]]
    IN
    IF ~env.newAddress THEN createFailEarly(h2, "ErrNewAddress")
    ELSE
    LET t == Transfer(h2, NewContractAddress, input.vmInput.callerAddr, 0,
                      input.vmInput.callValue, env.funds)
    IN
    IF t.err # Nil THEN createFailEarly(t.h, t.err)
    ELSE
    LET h3 == [t.h EXCEPT !.runtime.active.scAddress = NewContractAddress]
        d == DeductInitialGasForIndirectDeployment(h3, env.code.len)
    IN
    IF d.err # Nil THEN createFailEarly(d.h, d.err)
    ELSE
    LET idContext == NextHostContextID(d.h)
        h4 == PushInstance(AddHostContext(d.h, idContext))
    IN
    IF ~env.code.valid THEN createFail(h4, idContext, "ErrContractInvalid")
    ELSE
    LET h5 == StartWasmerInstance(h4) IN
    IF ~env.code.verified THEN createFail(h5, idContext, "ErrContractInvalid")
    ELSE IF env.code.hasInit
    THEN [h |-> h5, err |-> Nil, entered |-> TRUE, idContext |-> idContext]
    ELSE CreateNewContractEnd(h5, idContext, Nil)


(***************************************************************************)
(* Async-context info (part_000:581-851).  An info is                      *)
(*   [callerAddr, asyncContextMap : context identifier -> context],        *)
(* a context [callback, asyncCalls : sequence of calls], a call            *)
(*   [destination, gasPercentage, gasLimit, status, successCallback,       *)
(*    errorCallback].                                                      *)
(* Go ranges over a map in an order of its own: an iteration order is a    *)
(* sequence holding every key once, chosen by the caller of the operator.  *)
(***************************************************************************)
NilInfo == [isNil |-> TRUE]            \* a nil *AsyncContextInfo
RemoteAddresses == {"R"}               \* addresses of another shard
canExecuteSynchronouslyOnDest(destination) == destination \notin RemoteAddresses

Orders(m) ==
    {o \in [1..Cardinality(DOMAIN m) -> DOMAIN m] :
        \A i, j \in DOMAIN o : i # j => o[i] # o[j]}

RECURSIVE SumSeq(_)
SumSeq(q) == IF q = <<>> THEN 0 ELSE q[1] + SumSeq(Tail(q))

\* all the calls of a map, context after context in the order given
RECURSIVE CallsInOrder(_, _)
CallsInOrder(m, order) ==
    IF order = <<>> THEN <<>>
    ELSE m[order[1]].asyncCalls \o CallsInOrder(m, Tail(order))

NumCalls(m) == Len(CallsInOrder(m, CHOOSE o \in Orders(m) : TRUE))

\* lines 827-851.  gasLeft: metering.GasLeft(); order: the second range loop
setupAsyncCallsGasByPercentages(info, gasLeft, order) ==
    LET m == info.asyncContextMap
        all == CallsInOrder(m, order)
        totalPercentage == SumSeq([i \in 1..Len(all) |-> all[i].gasPercentage])
        limit(c) == gasLeft * (c.gasPercentage \div totalPercentage)
        gasAdded == SumSeq([i \in 1..Len(all) |-> limit(all[i])])
        lastContextIdentifier == IF order = <<>> THEN "" ELSE Last(order)
        \* the index the inner loop visited last, over all the contexts
        nonEmpty == SelectSeq(order, LAMBDA id : m[id].asyncCalls # <<>>)
        lastAsyncCallIndex ==
            IF nonEmpty = <<>> THEN 1 ELSE Len(m[Last(nonEmpty)].asyncCalls)
        set == [id \in DOMAIN m |->
                   [callback |-> m[id].callback,
                    asyncCalls |->
                        [i \in 1..Len(m[id].asyncCalls) |->
                            [m[id].asyncCalls[i] EXCEPT
                                !.gasLimit = limit(m[id].asyncCalls[i])]]]]
    IN
    IF all # <<>> /\ totalPercentage = 0
    THEN [panic |-> "integer divide by zero", info |-> info]
    ELSE IF lastContextIdentifier # "" /\ gasAdded < gasLeft
    THEN IF lastAsyncCallIndex > Len(m[lastContextIdentifier].asyncCalls)
         THEN [panic |-> "index out of range", info |-> info]
         ELSE [panic |-> Nil,
               info |-> [info EXCEPT !.asyncContextMap =
                   [set EXCEPT ![lastContextIdentifier].asyncCalls[lastAsyncCallIndex].gasLimit =
                        @ + (gasLeft - gasAdded)]]]
    ELSE [panic |-> Nil, info |-> [info EXCEPT !.asyncContextMap = set]]

\* lines 696-724
getPendingAsyncCalls(asyncInfo) ==
    IF asyncInfo = NilInfo
    THEN [panic |-> "nil pointer dereference", info |-> NilInfo]
    ELSE
    LET m == asyncInfo.asyncContextMap
        pending(id) == SelectSeq(m[id].asyncCalls,
                                 LAMBDA c : c.status = "AsyncCallPending")
        ids == {id \in DOMAIN m : pending(id) # <<>>}
    IN [panic |-> Nil,
        info |-> [callerAddr |-> asyncInfo.callerAddr,
                  returnData |-> asyncInfo.returnData,
                  asyncContextMap |->
                      [id \in ids |-> [callback |-> m[id].callback,
                                       asyncCalls |-> pending(id)]]]]

(***************************************************************************)
(* The stored form of an info: encoding/json writes the map's entries by   *)
(* ascending key; an empty buffer does not parse.                          *)
(***************************************************************************)
ContextIdentifierOrder == <<"", "ctx">>
ContextIdentifiers == {ContextIdentifierOrder[i] : i \in DOMAIN ContextIdentifierOrder}

Marshal(info) ==
    LET keys == SelectSeq(ContextIdentifierOrder,
                          LAMBDA id : id \in DOMAIN info.asyncContextMap)
    IN [callerAddr |-> info.callerAddr, returnData |-> info.returnData,
        entries |-> [i \in 1..Len(keys) |->
                        [key |-> keys[i], value |-> info.asyncContextMap[keys[i]]]]]

NoBuffer == <<>>
Unmarshal(buff) ==
    IF buff = NoBuffer
    THEN [err |-> "unexpected end of JSON input", info |-> NilInfo]
    ELSE [err |-> Nil,
          info |-> [callerAddr |-> buff.callerAddr,
                    returnData |-> buff.returnData,
                    asyncContextMap |->
                        [id \in {buff.entries[i].key : i \in DOMAIN buff.entries} |->
                            (CHOOSE e \in {buff.entries[i] : i \in DOMAIN buff.entries} :
                                 e.key = id).value]]]

(***************************************************************************)
(* The storage context under the async key, Hash(AsyncDataPrefix ||        *)
(* originalTxHash): one key for the whole transaction, one value for each  *)
(* account.  A write goes to the output state of the account the storage   *)
(* context is bound to; a read sees that write, else the committed value.  *)
(***************************************************************************)
StoredAt(committed, a) == IF a \in DOMAIN committed THEN committed[a] ELSE NoBuffer

GetStorage(h, committed) ==
    LET a == h.storage.active
        u == h.output.active.storageUpdates
    IN IF a \in DOMAIN u THEN u[a] ELSE StoredAt(committed, a)

\* storeOk: whether the storage context accepts the write
SetStorage(h, value, storeOk) ==
    IF h.runtime.active.readOnly
    THEN [h |-> h, err |-> "ErrInvalidCallOnReadOnlyMode"]
    ELSE IF ~storeOk THEN [h |-> h, err |-> "ErrStoreFailed"]
    ELSE [h |-> [h EXCEPT !.output.active.storageUpdates =
                              (h.storage.active :> value) @@ @,
                          !.events = Append(@, [e |-> "SetStorage",
                                                value |-> value])],
          err |-> Nil]

\* lines 671-691
savePendingAsyncCalls(h, pendingAsyncMap, storeOk) ==
    SetStorage(h, Marshal(pendingAsyncMap), storeOk)

\* a variant of getCurrentAsyncInfo that reads a missing value as an info
\* with no call
getCurrentAsyncInfoOrEmpty(h, committed) ==
    IF GetStorage(h, committed) = NoBuffer
    THEN [err |-> Nil, info |-> NoAsyncInfo("user")]
    ELSE Unmarshal(GetStorage(h, committed))

\* lines 885-903
getCurrentAsyncInfo(h, committed) == Unmarshal(GetStorage(h, committed))

(***************************************************************************)
(* The inputs the scheduler synthesizes and the records it sends.          *)
(***************************************************************************)
createDestinationContractCallInput(h, asyncCall) ==
    [recipientAddr |-> asyncCall.destination, function |-> "f",
     vmInput |-> [callerAddr |-> h.runtime.active.scAddress,
                  gasProvided |-> asyncCall.gasLimit, gasLocked |-> 0,
                  callType |-> "AsynchronousCall", callValue |-> 1]]

\* inputOk: whether the gas the destination left pays for the callback step
createCallbackContractCallInput(h, vmOutput, callbackInitiator, callbackFunction, inputOk) ==
    IF ~inputOk THEN [err |-> "ErrNotEnoughGas", input |-> Nil]
    ELSE [err |-> Nil,
          input |-> [recipientAddr |-> h.runtime.active.scAddress,
                     function |-> callbackFunction,
                     vmInput |-> [callerAddr |-> callbackInitiator,
                                  gasProvided |-> vmOutput.gasRemaining,
                                  gasLocked |-> 0,
                                  callType |-> "AsynchronousCallBack",
                                  callValue |-> 0]]]

\* a cross-shard record: an output transfer and the trace of its emission
SendRecord(h, what, destination, gasLimit) ==
    [h EXCEPT !.output.active.transfers =
                  Append(@, [to |-> destination,
                             from |-> h.runtime.active.scAddress,
                             value |-> 0, gasLimit |-> gasLimit]),
              !.events = Append(@, [e |-> what, to |-> destination,
                                    gasLimit |-> gasLimit])]

\* sendOk: whether the output context accepts the record
sendAsyncCallToDestination(h, asyncCall, sendOk) ==
    IF ~sendOk THEN [h |-> h, err |-> "ErrAsyncSend"]
    ELSE [h |-> SendRecord(h, "sendAsyncCallToDestination",
                           asyncCall.destination, asyncCall.gasLimit),
          err |-> Nil]

sendStorageCallbackToDestination(h, initiator, sendOk) ==
    IF ~sendOk THEN [h |-> h, err |-> "ErrAsyncSend"]
    ELSE [h |-> SendRecord(h, "sendStorageCallbackToDestination", initiator, 0),
          err |-> Nil]

sendCallbackToCurrentCaller(h, sendOk) ==
    IF ~sendOk THEN [h |-> h, err |-> "ErrAsyncSend"]
    ELSE [h |-> SendRecord(h, "sendCallbackToCurrentCaller",
                           h.runtime.active.vmInput.callerAddr, GasLeft(h)),
          err |-> Nil]

\* processCallbackVMOutput: the callback's error may be surfaced or absorbed
processCallbackVMOutputAnswers(callBackErr) == {Nil, callBackErr}

(***************************************************************************)
(* processAsyncInfo (part_000:581-620), outside its calls of               *)
(* ExecuteOnDestContext.  The info processed is the runtime's.             *)
(***************************************************************************)
AsyncInfoOf(h) == h.runtime.active.asyncContextInfo
SetAsyncInfo(h, info) == [h EXCEPT !.runtime.active.asyncContextInfo = info]

\* lines 583-588: partition the gas, then range over the same-shard calls.
\* A position is <<context identifier, index>>.
processAsyncInfoBegin(h, setupOrder, loopOrder) ==
    LET s == setupAsyncCallsGasByPercentages(AsyncInfoOf(h), GasLeft(h),
                                             setupOrder)
        m == s.info.asyncContextMap
        positions(id) ==
            LET here == SelectSeq([i \in 1..Len(m[id].asyncCalls) |-> i],
                    LAMBDA i : canExecuteSynchronouslyOnDest(
                                   m[id].asyncCalls[i].destination))
            IN [k \in 1..Len(here) |-> <<id, here[k]>>]
        RECURSIVE todoOf(_)
        todoOf(order) == IF order = <<>> THEN <<>>
                         ELSE positions(order[1]) \o todoOf(Tail(order))
    IN [panic |-> s.panic, h |-> SetAsyncInfo(h, s.info),
        todo |-> todoOf(loopOrder)]

\* the pending map shares its calls with the info: a gas limit set through
\* the one is seen through the other
WriteBack(info, pendingInfo) ==
    LET m == info.asyncContextMap
        rank(id, i) == Cardinality({j \in 1..i :
                           m[id].asyncCalls[j].status = "AsyncCallPending"})
    IN [info EXCEPT !.asyncContextMap =
           [id \in DOMAIN m |->
               [callback |-> m[id].callback,
                asyncCalls |->
                    [i \in 1..Len(m[id].asyncCalls) |->
                        IF m[id].asyncCalls[i].status = "AsyncCallPending"
                        THEN pendingInfo.asyncContextMap[id].asyncCalls[rank(id, i)]
                        ELSE m[id].asyncCalls[i]]]]]

\* a variant of SendAll that also sends the calls of this shard
RECURSIVE SendAllCalls(_, _, _)
SendAllCalls(h, asyncCalls, sendOk) ==
    IF asyncCalls = <<>> THEN [h |-> h, err |-> Nil]
    ELSE LET r == sendAsyncCallToDestination(h, asyncCalls[1], sendOk) IN
         IF r.err # Nil THEN r ELSE SendAllCalls(r.h, Tail(asyncCalls), sendOk)

RECURSIVE SendAll(_, _, _)
SendAll(h, asyncCalls, sendOk) ==
    IF asyncCalls = <<>> THEN [h |-> h, err |-> Nil]
    ELSE IF canExecuteSynchronouslyOnDest(asyncCalls[1].destination)
    THEN SendAll(h, Tail(asyncCalls), sendOk)
    ELSE LET r == sendAsyncCallToDestination(h, asyncCalls[1], sendOk) IN
         IF r.err # Nil THEN r ELSE SendAll(r.h, Tail(asyncCalls), sendOk)

\* lines 597-619: what is left pending is stored, then sent
processAsyncInfoEnd(h, setupOrder, sendOrder, storeOk, sendOk) ==
    LET pendingMapInfo == getPendingAsyncCalls(AsyncInfoOf(h)).info IN
    IF DOMAIN pendingMapInfo.asyncContextMap = {}
    THEN [panic |-> Nil, h |-> h, err |-> Nil, pending |-> pendingMapInfo]
    ELSE
    LET saved == savePendingAsyncCalls(h, pendingMapInfo, storeOk) IN
    IF saved.err # Nil
    THEN [panic |-> Nil, h |-> saved.h, err |-> saved.err, pending |-> NilInfo]
    ELSE
    LET s == setupAsyncCallsGasByPercentages(pendingMapInfo, GasLeft(saved.h),
                                             setupOrder)
        h1 == SetAsyncInfo(saved.h, WriteBack(AsyncInfoOf(saved.h), s.info))
        sent == SendAll(h1, CallsInOrder(s.info.asyncContextMap, sendOrder),
                        sendOk)
    IN IF s.panic # Nil
       THEN [panic |-> s.panic, h |-> saved.h, err |-> Nil, pending |-> NilInfo]
       ELSE IF sent.err # Nil
       THEN [panic |-> Nil, h |-> sent.h, err |-> sent.err, pending |-> NilInfo]
       ELSE [panic |-> Nil, h |-> sent.h, err |-> Nil, pending |-> s.info]

\* callbackAsync, lines 641-646: the status and the callback it selects
SetStatus(h, position, vmOutput) ==
    SetAsyncInfo(h, [AsyncInfoOf(h) EXCEPT
        !.asyncContextMap[position[1]].asyncCalls[position[2]].status =
            IF vmOutput.returnCode # "Ok" THEN "AsyncCallRejected"
            ELSE "AsyncCallResolved"])

CallbackFunctionOf(asyncCall, vmOutput) ==
    IF vmOutput.returnCode # "Ok" THEN asyncCall.errorCallback
    ELSE asyncCall.successCallback

(***************************************************************************)
(* processCallbackStack (part_000:732-819) and getFunctionByCallType       *)
(* (853-883), outside the call of ExecuteOnDestContext.                    *)
(***************************************************************************)
\* lines 750-764 and 867-880: the ranges that look for the call whose
\* destination is the caller.  `cur` is [id, pos, found, call].
\* a variant of FindCall that takes the first call of a context whatever its
\* destination
RECURSIVE FindAnyCall(_, _, _, _, _)
FindAnyCall(m, order, caller, cur, stopOnFound) ==
    IF order = <<>> THEN cur
    ELSE LET c == m[order[1]].asyncCalls
             cur2 == IF c = <<>> THEN cur
                     ELSE [id |-> order[1], pos |-> 1, found |-> TRUE,
                           call |-> c[1]]
         IN IF (IF stopOnFound THEN cur2.found ELSE cur2.id # "")
            THEN cur2
            ELSE FindAnyCall(m, Tail(order), caller, cur2, stopOnFound)

RECURSIVE FindCall(_, _, _, _, _)
FindCall(m, order, caller, cur, stopOnFound) ==
    IF order = <<>> THEN cur
    ELSE LET c == m[order[1]].asyncCalls
             matches == {i \in 1..Len(c) : c[i].destination = caller}
             first == CHOOSE i \in matches : \A j \in matches : i <= j
             cur2 == IF matches = {} THEN cur
                     ELSE [id |-> order[1], pos |-> first, found |-> TRUE,
                           call |-> c[first]]
         IN IF (IF stopOnFound THEN cur2.found ELSE cur2.id # "")
            THEN cur2
            ELSE FindCall(m, Tail(order), caller, cur2, stopOnFound)

NotFound == [id |-> "", pos |-> 0, found |-> FALSE, call |-> Nil]

\* a variant of getFunctionByCallType that never consults the stored calls
getFunctionByCallTypeOfInput(h, committed, order) ==
    [h |-> h, err |-> GetFunctionToCall(h)]

getFunctionByCallType(h, committed, order) ==
    IF h.runtime.active.vmInput.callType # "AsynchronousCallBack"
    THEN [h |-> h, err |-> GetFunctionToCall(h)]
    ELSE
    LET u == getCurrentAsyncInfo(h, committed) IN
    IF u.err # Nil THEN [h |-> h, err |-> u.err]
    ELSE
    LET f == FindCall(u.info.asyncContextMap, order,
                      h.runtime.active.vmInput.callerAddr, NotFound, TRUE)
        h1 == IF f.found
              THEN [h EXCEPT !.runtime.active.callFunction = f.call.successCallback]
              ELSE h
    IN [h |-> h1, err |-> GetFunctionToCall(h1)]

\* lines 733-810.  deliver: "none", "sent" or "execute" (then input is the
\* callback's input); drained: whether the local map became empty.
processCallbackStackBegin(h, committed, order, storeOk, inputOk, sendOk) ==
    LET u == getCurrentAsyncInfo(h, committed)
        none(h1, err, drained) == [h |-> h1, err |-> err, deliver |-> "none",
                                   input |-> Nil, drained |-> drained]
    IN
    IF u.err # Nil THEN none(h, u.err, FALSE)
    ELSE
    LET m == u.info.asyncContextMap
        f == FindCall(m, order, h.runtime.active.vmInput.callerAddr,
                      NotFound, FALSE)
    IN
    IF f.id = "" THEN none(h, "ErrCallBackFuncNotExpected", FALSE)
    ELSE
    LET remaining == IF Len(m[f.id].asyncCalls) = 1
                     THEN DOMAIN m \ {f.id} ELSE DOMAIN m
    IN
    IF remaining # {} THEN none(h, Nil, FALSE)
    ELSE
    LET erased == SetStorage(h, NoBuffer, storeOk) IN
    IF erased.err # Nil THEN none(erased.h, erased.err, TRUE)
    ELSE IF ~canExecuteSynchronouslyOnDest(u.info.callerAddr)
    THEN LET r == sendStorageCallbackToDestination(erased.h, u.info.callerAddr,
                                                   sendOk)
         IN [h |-> r.h, err |-> r.err,
             deliver |-> IF r.err = Nil THEN "sent" ELSE "none",
             input |-> Nil, drained |-> TRUE]
    ELSE LET c == createCallbackContractCallInput(erased.h,
                      GetVMOutput(erased.h), u.info.callerAddr,
                      CallBackFunctionName, inputOk)
         IN IF c.err # Nil THEN none(erased.h, c.err, TRUE)
            ELSE [h |-> erased.h, err |-> Nil, deliver |-> "execute",
                  input |-> c.input, drained |-> TRUE]

(***************************************************************************)
(* Top-level dispatch: doRunSmartContractCall (part_000:107-145).          *)
(***************************************************************************)
\* host.InitState: every context blank, every stack empty
InitState ==
    [bigInt |-> [active |-> 0, stateStack |-> <<>>],
     output |-> [active |-> BlankOutput, stateStack |-> <<>>],
     runtime |-> [active |-> BlankRuntime, stateStack |-> <<>>],
     storage |-> [active |-> Nil, stateStack |-> <<>>],
     metering |-> [initialGasProvided |-> 0, initialCost |-> 0,
                   gasForExecution |-> 0, gasUsedByAccounts |-> EmptyMap,
                   stateStack |-> <<>>],
     instances |-> [instance |-> NoInstance, instanceStack |-> <<>>],
     hostContexts |-> {}, events |-> <<>>]

\* host.Clean: the engine instance is released, the registry emptied
\* a variant of Clean that leaves the registry of host contexts as it is
CleanInstancesOnly(h) ==
    [h EXCEPT !.instances = [instance |-> NoInstance, instanceStack |-> <<>>]]

Clean(h) == [h EXCEPT !.instances = [instance |-> NoInstance,
                                     instanceStack |-> <<>>],
                      !.hostContexts = {}]

verifyAllowedFunctionCall(h) ==
    LET functionName == h.runtime.active.callFunction
        isInit == functionName \in {InitFunctionName, InitFunctionNameEth}
        isCallBack == functionName = CallBackFunctionName
        isInAsyncCallBack ==
            h.runtime.active.vmInput.callType = "AsynchronousCallBack"
    IN IF isInit THEN "ErrInitFuncCalledInRun"
       ELSE IF isCallBack /\ ~isInAsyncCallBack
       THEN "ErrCallBackFuncCalledInRun"
       ELSE Nil

\* lines 108-134 and callSCMethod up to the call of the guest function
doRunSmartContractCallBegin(input, committed, order) ==
    LET h0 == InitState
        h1 == [h0 EXCEPT !.runtime = RuntimeInitStateFromContractCallInput(
                                         @, input)]
        h2 == [h1 EXCEPT !.storage = SetAddress(@, h1.runtime.active.scAddress)]
        sc == h2.runtime.active.scAddress
    IN
    IF ~HasCode(sc)
    THEN [h |-> h2, err |-> "ErrContractNotFound", entered |-> FALSE]
    ELSE
    LET d == DeductInitialGasForExecution(h2, CodeLen(sc)) IN
    IF d.err # Nil
    THEN [h |-> d.h, err |-> "ErrNotEnoughGas", entered |-> FALSE]
    ELSE IF ~CodeIsValid(sc)
    THEN [h |-> d.h, err |-> "ErrContractInvalid", entered |-> FALSE]
    ELSE
    LET h3 == StartWasmerInstance(d.h)
        h4 == AddHostContext(h3, NextHostContextID(h3))
    IN
    IF verifyAllowedFunctionCall(h4) # Nil
    THEN [h |-> h4, err |-> verifyAllowedFunctionCall(h4), entered |-> FALSE]
    ELSE LET g == getFunctionByCallType(h4, committed, order) IN
         [h |-> g.h, err |-> g.err, entered |-> g.err = Nil]

(***************************************************************************)
(* The state machine.  `calls` is the control stack: a "guest" frame is a  *)
(* host operation suspended in guest code, an "owner" frame an operation   *)
(* whose guest returned and whose async calls are being processed, a       *)
(* "host" frame the processing itself, suspended in a call of              *)
(* ExecuteOnDestContext.  A transition is computed as [h, calls, last].    *)
(***************************************************************************)
Install(h) ==
    /\ bigInt' = h.bigInt
    /\ output' = h.output
    /\ runtime' = h.runtime
    /\ storage' = h.storage
    /\ metering' = h.metering
    /\ instances' = h.instances
    /\ hostContexts' = h.hostContexts
    /\ events' = h.events
    /\ UNCHANGED <<chain, history>>

Nothing == [op |-> "none"]
NoHistory == [stored |-> NilInfo, remaining |-> EmptyMap, extra |-> Nil]
Top == Last(calls)
InGuest == calls # <<>> /\ Top.kind = "guest"
InHost(op, phase) ==
    calls # <<>> /\ Top.kind = "host" /\ Top.op = op /\ Top.phase = phase
GuestDepth == Len(SelectSeq(calls, LAMBDA f : f.kind \in {"guest", "owner"}))

Apply(t) ==
    /\ (Len(t.calls) > Len(calls) /\ Last(t.calls).kind = "guest")
           => GuestDepth < MaxDepth
    /\ Install(t.h)
    /\ calls' = t.calls
    /\ last' = t.last

GuestFrame(op, h0, r) ==
    [kind |-> "guest", op |-> op, pre |-> ContextsOf(h0),
     preDepths |-> StackDepths(h0), engine |-> r.engine,
     idContext |-> r.idContext, depths |-> StackDepths(r.h)]

NoRet == [vmOutput |-> Nil, asyncInfo |-> NilInfo, err |-> Nil]
HostFrame(op, phase, todo) ==
    [kind |-> "host", op |-> op, phase |-> phase, todo |-> todo, ret |-> NoRet]
SetTop(stack, phase, todo) ==
    [stack EXCEPT ![Len(stack)].phase = phase, ![Len(stack)].todo = todo]

\* the record a returning sub-call leaves in `last`
\* stage: the step the operation stopped at ("done": none failed)
Returned(op, err, pre, preDepths, engine, stage) ==
    [op |-> op, err |-> err, pre |-> pre, preDepths |-> preDepths,
     engine |-> engine, stage |-> stage]

\* what the sub-call leaves active in the contexts its caller keeps on success
ChildOf(h) ==
    [bigInt |-> h.bigInt.active, output |-> h.output.active,
     function |-> h.runtime.active.callFunction,
     callType |-> h.runtime.active.vmInput.callType,
     gasProvided |-> h.runtime.active.vmInput.gasProvided]

StageOf(executed, err) ==
    IF ~executed THEN "transfer" ELSE IF err # Nil THEN "execute" ELSE "done"

\* a Go panic: nothing recovers it, the process stops
Panicked(h, where, cause) ==
    [h |-> h, calls |-> <<[kind |-> "panic", in |-> where, cause |-> cause]>>,
     last |-> Nothing]
HasPanicked == calls # <<>> /\ Top.kind = "panic"

\* hand the results of ExecuteOnDestContext to the code that called it
Deliver(stack, res) ==
    IF stack # <<>> /\ Last(stack).kind = "host"
    THEN [stack EXCEPT ![Len(stack)].ret = res,
                       ![Len(stack)].phase =
                           IF @ = "call" THEN "afterCall" ELSE "afterCallback"]
    ELSE stack

\* ExecuteOnDestContext returns (the deferred finishExecuteOnDestContext)
DestReturn(h, below, pre, preDepths, engine, stage, err, info) ==
    LET f == finishExecuteOnDestContext(h, err) IN
    [h |-> f.h,
     calls |-> Deliver(below, [vmOutput |-> f.vmOutput, asyncInfo |-> info,
                               err |-> err]),
     last |-> Returned("ExecuteOnDestContext", err, pre, preDepths, engine,
                       stage)
              @@ [child |-> ChildOf(h), vmOutput |-> f.vmOutput]]

\* doRunSmartContractCall returns (lines 136-144, then the deferred Clean);
\* arisen: the error that arose in the dispatch, if any
RunReturn(h, err, arisen) ==
    LET h1 == IF err = Nil THEN UnlockGasIfAsyncStep(h) ELSE h IN
    [h |-> Clean(h1), calls |-> <<>>,
     last |-> [op |-> "RunSmartContractCall", failed |-> err # Nil,
               arisen |-> arisen, committed |-> FALSE,
               callType |-> h.runtime.active.vmInput.callType,
               function |-> h.runtime.active.callFunction,
               gasProvided |-> h.runtime.active.vmInput.gasProvided,
               caller |-> h.runtime.active.vmInput.callerAddr,
               address |-> h.runtime.active.scAddress,
               storedBefore |-> StoredAt(chain, h.runtime.active.scAddress),
               events |-> h.events,
               vmOutput |-> IF err # Nil
                            THEN CreateVMOutputInCaseOfError(h, err)
                            ELSE GetVMOutput(h1)]]

\* what the end of callSCMethod did, kept with the result of the dispatch:
\* the error of processAsyncInfo, whether calls stay pending, and how many
\* times sendCallbackToCurrentCaller was invoked
WithAsyncInfo(t, paiErr, pending, sent) ==
    [t EXCEPT !.last = [paiErr |-> paiErr,
                        pending |-> IF paiErr # Nil THEN FALSE
                                    ELSE DOMAIN pending.asyncContextMap # {},
                        sent |-> sent] @@ @]

\* callSCMethod that sends the callback whatever processAsyncInfo returned
callSCMethodEndAlwaysSends(h, paiErr, pending, sendOk) ==
    IF h.runtime.active.vmInput.callType = "AsynchronousCall"
    THEN LET r == sendCallbackToCurrentCaller(h, sendOk) IN
         WithAsyncInfo(RunReturn(r.h, r.err, r.err), paiErr, pending, 1)
    ELSE WithAsyncInfo(RunReturn(h, paiErr, paiErr), paiErr, pending, 0)

\* callSCMethod, lines 510-527, once processAsyncInfo returned
callSCMethodEnd(h, paiErr, pending, sendOk) ==
    IF h.runtime.active.vmInput.callType = "AsynchronousCall"
    THEN IF paiErr # Nil
         THEN WithAsyncInfo(RunReturn(h, Nil, paiErr), paiErr, pending, 0)
         ELSE IF DOMAIN pending.asyncContextMap = {}
         THEN LET r == sendCallbackToCurrentCaller(h, sendOk) IN
              WithAsyncInfo(RunReturn(r.h, r.err, r.err), paiErr, pending, 1)
         ELSE WithAsyncInfo(RunReturn(h, Nil, Nil), paiErr, pending, 0)
    ELSE WithAsyncInfo(RunReturn(h, paiErr, paiErr), paiErr, pending, 0)

\* processAsyncInfo returns to the operation that owns it
OwnerReturn(h, stack, paiErr, pending, sendOk) ==
    LET owner == Last(stack) IN
    IF owner.op = "ExecuteOnDestContext"
    THEN DestReturn(h, Front(stack), owner.pre, owner.preDepths, owner.engine,
                    IF paiErr # Nil THEN "processAsyncInfo" ELSE "done",
                    paiErr, AsyncInfoOf(h))
    ELSE callSCMethodEnd(h, paiErr, pending, sendOk)

\* the guest function of the operation on top of `stack` returned without
\* error: processAsyncInfo starts
AfterExecute(h, stack, setupOrder, loopOrder, sendOk) ==
    IF DOMAIN AsyncInfoOf(h).asyncContextMap = {}
    THEN OwnerReturn(h, stack, Nil, getPendingAsyncCalls(AsyncInfoOf(h)).info,
                     sendOk)
    ELSE LET b == processAsyncInfoBegin(h, setupOrder, loopOrder) IN
         IF b.panic # Nil
         THEN Panicked(h, "setupAsyncCallsGasByPercentages", b.panic)
         ELSE [h |-> b.h,
               calls |-> Append([stack EXCEPT ![Len(stack)].kind = "owner"],
                                HostFrame("processAsyncInfo", "loop", b.todo)),
               last |-> Nothing]

\* a call of ExecuteOnDestContext, up to the guest entry or to its return
CallDest(h, stack, input, funds, bi) ==
    LET r == ExecuteOnDestContextBegin(h, input, funds, bi) IN
    IF r.entered
    THEN [h |-> r.h,
          calls |-> Append(stack, GuestFrame("ExecuteOnDestContext", h, r)),
          last |-> Nothing]
    ELSE DestReturn(r.h, stack, ContextsOf(h), StackDepths(h), r.engine,
                    StageOf(r.executed, r.err), r.err,
                    IF r.err = Nil THEN AsyncInfoOf(r.h) ELSE NilInfo)

Init ==
    /\ bigInt = InitState.bigInt
    /\ output = InitState.output
    /\ runtime = InitState.runtime
    /\ storage = InitState.storage
    /\ metering = InitState.metering
    /\ instances = InitState.instances
    /\ hostContexts = InitState.hostContexts
    /\ events = InitState.events
    /\ chain = EmptyMap
    /\ history = NoHistory
    /\ calls = <<>>
    /\ last = Nothing

\* The call inputs: a call of the contract's function with no gas or with
\* all of it, and with all the gas one call for each way of failing (a
\* function that is missing or is init, code that is invalid, no code) and
\* a call of a built-in function.
CallInputs(caller, callTypes) ==
    {in \in [recipientAddr : Addresses, function : FunctionNames,
             vmInput : [callerAddr : {caller}, gasProvided : {0, MaxGas},
                        gasLocked : {0}, callType : callTypes,
                        callValue : {1}]] :
        \/ in.function \in {"f", "init"}
        \/ in.vmInput.gasProvided = MaxGas /\ in.recipientAddr \in Contracts}

BuiltinAnswers == [err : {Nil, "ErrBuiltin"}, gasRemaining : {0}]

\* What a sub-call meets: the input, whether the caller's balance covers the
\* value (funds), what a built-in function answers (bi).  An answer that is
\* not consulted is left at one value: a transfer that fails consults
\* nothing else, and bi is consulted for a built-in function only.
SubCalls(caller) ==
    LET in0 == CHOOSE in \in CallInputs(caller, {"DirectCall"}) : TRUE
        bi0 == CHOOSE bi \in BuiltinAnswers : bi.err = Nil
    IN {c \in [in : CallInputs(caller, {"DirectCall"}), funds : BOOLEAN,
                bi : BuiltinAnswers] :
           /\ c.in.function \notin protocolBuiltinFunctions => c.bi = bi0
           /\ ~c.funds => c.in = in0 /\ c.bi = bi0}

\* RunSmartContractCall, from the request to the guest entry
RunSmartContractCall ==
    /\ calls = <<>>
    /\ \E input \in CallInputs("user", {"DirectCall"}) :
         LET r == doRunSmartContractCallBegin(input, chain, <<>>) IN
         IF r.entered
         THEN Apply([h |-> r.h,
                     calls |-> <<[kind |-> "guest",
                                  op |-> "RunSmartContractCall",
                                  function |-> input.function,
                                  depths |-> StackDepths(r.h)]>>,
                     last |-> Nothing])
         ELSE Apply(RunReturn(r.h, r.err, r.err))

GuestOutcomes == {"ok", "okReturnCodeNotOk", "BreakpointNone",
                  "BreakpointSignalError"}

\* the state the guest function leaves when it stops with `outcome`
GuestExit(h, outcome) ==
    IF outcome = "okReturnCodeNotOk"
    THEN [h EXCEPT !.output.active.returnCode = "UserError"]
    ELSE h

\* the guest of the top-level call returns: rest of callSCMethod and of
\* doRunSmartContractCall
ReturnToRun ==
    /\ InGuest /\ Top.op = "RunSmartContractCall"
    /\ runtime.active.vmInput.callType # "AsynchronousCallBack"
    /\ \E outcome \in GuestOutcomes, sendOk \in BOOLEAN,
          setupOrder, loopOrder \in Orders(AsyncInfoOf(H).asyncContextMap) :
         LET h == GuestExit(H, outcome)
             err == handleBreakpointIfAny(outcome)
         IN IF err # Nil THEN Apply(RunReturn(h, err, err))
            ELSE Apply(AfterExecute(h, calls, setupOrder, loopOrder, sendOk))

\* guest work between host calls: a bigint handle and a return-data entry
GuestWork ==
    /\ InGuest
    /\ GasLeft(H) >= 1
    /\ bigInt.active < MaxWork
    /\ Install([UseGas(H, 1) EXCEPT
                    !.bigInt.active = @ + 1,
                    !.output.active.returnData = Append(@, GuestDepth)])
    /\ UNCHANGED calls
    /\ last' = Nothing

\* the guest enters read-only mode (the first step of executeReadOnly)
GuestSetReadOnly ==
    /\ InGuest
    /\ ~runtime.active.readOnly
    /\ Install([H EXCEPT !.runtime.active.readOnly = TRUE])
    /\ UNCHANGED calls
    /\ last' = Nothing

\* the guest calls the import executeOnDestContext
GuestExecuteOnDestContext ==
    /\ InGuest
    /\ GasLeft(H) >= 1
    /\ \E c \in SubCalls(runtime.active.scAddress) :
         LET g == UseGas(H, 1)
             input == [c.in EXCEPT !.vmInput.gasProvided = BoundGasLimit(g, @)]
         IN Apply(CallDest(g, calls, input, c.funds, c.bi))

\* the guest of a sub-call made through ExecuteOnDestContext returns
ReturnFromDest ==
    /\ InGuest /\ Top.op = "ExecuteOnDestContext"
    /\ \E outcome \in GuestOutcomes,
          setupOrder, loopOrder \in Orders(AsyncInfoOf(H).asyncContextMap) :
         LET e == executeEnd(GuestExit(H, outcome), Top.idContext,
                             handleBreakpointIfAny(outcome))
         IN IF e.err # Nil
            THEN Apply(DestReturn(e.h, Front(calls), Top.pre, Top.preDepths,
                                  Top.engine, "execute", e.err, NilInfo))
            ELSE Apply(AfterExecute(e.h, calls, setupOrder, loopOrder, TRUE))

\* the guest calls the import executeOnSameContext
GuestExecuteOnSameContext ==
    /\ InGuest
    /\ GasLeft(H) >= 1
    /\ \E c \in SubCalls(runtime.active.scAddress) :
         LET g == UseGas(H, 1)
             input == [c.in EXCEPT !.vmInput.gasProvided = BoundGasLimit(g, @)]
             r == ExecuteOnSameContextBegin(g, input, c.funds, c.bi)
         IN IF r.entered
            THEN Apply([h |-> r.h,
                        calls |-> Append(calls,
                            GuestFrame("ExecuteOnSameContext", g, r)),
                        last |-> Nothing])
            ELSE Apply([h |-> finishExecuteOnSameContext(r.h, r.err),
                        calls |-> calls,
                        last |-> Returned("ExecuteOnSameContext", r.err,
                                          ContextsOf(g), StackDepths(g),
                                          r.engine,
                                          StageOf(r.executed, r.err))
                                 @@ [child |-> ChildOf(r.h)]])

ReturnFromSame ==
    /\ InGuest /\ Top.op = "ExecuteOnSameContext"
    /\ \E outcome \in GuestOutcomes :
         LET e == executeEnd(GuestExit(H, outcome), Top.idContext,
                             handleBreakpointIfAny(outcome))
         IN Apply([h |-> finishExecuteOnSameContext(e.h, e.err),
                   calls |-> Front(calls),
                   last |-> Returned("ExecuteOnSameContext", e.err, Top.pre,
                                     Top.preDepths, Top.engine,
                                     StageOf(TRUE, e.err))
                            @@ [child |-> ChildOf(e.h)]])

CreateInputs(caller) ==
    [vmInput : [callerAddr : {caller}, gasProvided : {0, MaxGas},
                gasLocked : {0}, callType : {"DirectCall"}, callValue : {1}]]

\* What a deployment meets, answer after answer in the order the code asks:
\* once an answer fails the later ones are not consulted and stay TRUE.
CreateAnswers ==
    LET all == [newAddress : BOOLEAN, funds : BOOLEAN,
                code : [len : {1}, valid : BOOLEAN, verified : BOOLEAN,
                        hasInit : BOOLEAN]]
        asked(a) == <<a.newAddress, a.funds, a.code.valid, a.code.verified,
                      a.code.hasInit>>
    IN {a \in all : Cardinality({i \in 1..5 : ~asked(a)[i]}) <= 1}

\* the guest calls the import createContract
GuestCreateNewContract ==
    /\ InGuest
    /\ GasLeft(H) >= 1
    /\ \E in \in CreateInputs(runtime.active.scAddress), env \in CreateAnswers :
         LET g == UseGas(H, 1)
             input == [in EXCEPT !.vmInput.gasProvided = BoundGasLimit(g, @)]
             r == CreateNewContractBegin(g, input, env)
         IN IF r.entered
            THEN Apply([h |-> r.h,
                        calls |-> Append(calls,
                            GuestFrame("CreateNewContract", g,
                                       r @@ [engine |-> EngineOf(g)])),
                        last |-> Nothing])
            ELSE Apply([h |-> r.h, calls |-> calls,
                        last |-> Returned("CreateNewContract", r.err,
                                          ContextsOf(g), StackDepths(g),
                                          EngineOf(g), StageOf(TRUE, r.err))
                                 @@ [gasProvided |-> input.vmInput.gasProvided]])

ReturnFromCreate ==
    /\ InGuest /\ Top.op = "CreateNewContract"
    /\ \E outcome \in GuestOutcomes \ {"okReturnCodeNotOk"} :
         LET e == CreateNewContractEnd(H, Top.idContext,
                                       handleBreakpointIfAny(outcome))
         IN Apply([h |-> e.h, calls |-> Front(calls),
                   last |-> Returned("CreateNewContract", e.err, Top.pre,
                                     Top.preDepths, Top.engine,
                                     StageOf(TRUE, e.err))])

(***************************************************************************)
(* Async calls: registration by the guest, processing by the host.         *)
(***************************************************************************)
AsyncDestinations == {"A", "R"}
GasPercentages == {0, 40}
MaxAsyncCalls == 2

NewAsyncCall(destination, gasPercentage) ==
    [destination |-> destination, gasPercentage |-> gasPercentage,
     gasLimit |-> 0, status |-> "AsyncCallPending",
     successCallback |-> CallBackFunctionName, errorCallback |-> "onError"]

NewAsyncContext == [callback |-> CallBackFunctionName, asyncCalls |-> <<>>]

\* the info once a call is added to the context `id`
RegisterAsyncCall(info, id, asyncCall) ==
    LET m == info.asyncContextMap
        ctx == IF id \in DOMAIN m THEN m[id] ELSE NewAsyncContext
    IN [info EXCEPT !.asyncContextMap =
           (id :> [ctx EXCEPT !.asyncCalls = Append(@, asyncCall)]) @@ m]

\* the guest registers an async call in one of its async contexts
GuestCreateAsyncCall ==
    /\ InGuest
    /\ GasLeft(H) >= 1
    /\ NumCalls(AsyncInfoOf(H).asyncContextMap) < MaxAsyncCalls
    /\ \E id \in ContextIdentifiers, destination \in AsyncDestinations,
          gasPercentage \in GasPercentages :
         Install(SetAsyncInfo(UseGas(H, 1),
                 RegisterAsyncCall(AsyncInfoOf(H), id,
                                   NewAsyncCall(destination, gasPercentage))))
    /\ UNCHANGED calls
    /\ last' = Nothing

\* the guest's single async call (the import asyncCall): one call, in one
\* context, that is given all the gas
GuestAsyncCall ==
    /\ InGuest
    /\ GasLeft(H) >= 1
    /\ DOMAIN AsyncInfoOf(H).asyncContextMap = {}
    /\ \E destination \in {"A", "R"} :
         Install(SetAsyncInfo(UseGas(H, 1),
                 RegisterAsyncCall(AsyncInfoOf(H), "ctx",
                                   NewAsyncCall(destination, 40))))
    /\ UNCHANGED calls
    /\ last' = Nothing

\* the guest opens an async context that holds no call yet
GuestCreateAsyncContext ==
    /\ InGuest
    /\ GasLeft(H) >= 1
    /\ \E id \in ContextIdentifiers \ DOMAIN AsyncInfoOf(H).asyncContextMap :
         Install(SetAsyncInfo(UseGas(H, 1),
                 [AsyncInfoOf(H) EXCEPT !.asyncContextMap =
                      (id :> NewAsyncContext) @@ @]))
    /\ UNCHANGED calls
    /\ last' = Nothing

CallAt(h, position) ==
    AsyncInfoOf(h).asyncContextMap[position[1]].asyncCalls[position[2]]

\* processAsyncInfo, line 590: the next same-shard call is executed
processAsyncCall ==
    /\ InHost("processAsyncInfo", "loop")
    /\ Top.todo # <<>>
    /\ \E funds \in BOOLEAN, bi \in BuiltinAnswers :
         Apply(CallDest(H, SetTop(calls, "call", Top.todo),
                        createDestinationContractCallInput(
                            H, CallAt(H, Head(Top.todo))),
                        funds, bi))

\* processAsyncCall, lines 629-634, and callbackAsync up to its call of
\* ExecuteOnDestContext
processAsyncCallResume ==
    /\ InHost("processAsyncInfo", "afterCall")
    /\ LET ret == Top.ret
           position == Head(Top.todo)
           asyncCall == CallAt(H, position)
           pendingMap == getPendingAsyncCalls(ret.asyncInfo)
       IN
       IF pendingMap.panic # Nil
       THEN Apply(Panicked(H, "getPendingAsyncCalls", pendingMap.panic))
       ELSE IF DOMAIN pendingMap.info.asyncContextMap # {}
       THEN IF ret.err # Nil
            THEN Apply(OwnerReturn(H, Front(calls), ret.err, NilInfo, TRUE))
            ELSE Apply([h |-> H,
                        calls |-> SetTop(calls, "loop", Tail(Top.todo)),
                        last |-> Nothing])
       ELSE
       \E inputOk, funds \in BOOLEAN, bi \in BuiltinAnswers :
         LET h1 == SetStatus(H, position, ret.vmOutput)
             callbackFunction == CallbackFunctionOf(asyncCall, ret.vmOutput)
             c == createCallbackContractCallInput(h1, ret.vmOutput,
                      asyncCall.destination, callbackFunction, inputOk)
             h2 == [h1 EXCEPT !.events =
                        Append(@, [e |-> "callback", position |-> position,
                                   function |-> callbackFunction,
                                   status |-> CallAt(h1, position).status])]
         IN IF c.err # Nil
            THEN Apply(OwnerReturn(h1, Front(calls), c.err, NilInfo, TRUE))
            ELSE Apply(CallDest(h2, SetTop(calls, "callback", Top.todo),
                                c.input, funds, bi))

\* callbackAsync, lines 660-665, and the next round of the loop
callbackAsyncResume ==
    /\ InHost("processAsyncInfo", "afterCallback")
    /\ \E err \in processCallbackVMOutputAnswers(Top.ret.err) :
         IF err # Nil
         THEN Apply(OwnerReturn(H, Front(calls), err, NilInfo, TRUE))
         ELSE Apply([h |-> H, calls |-> SetTop(calls, "loop", Tail(Top.todo)),
                     last |-> Nothing])

\* processAsyncInfo, lines 597-619, and its return
processAsyncInfoFinish ==
    /\ InHost("processAsyncInfo", "loop")
    /\ Top.todo = <<>>
    /\ LET pending == getPendingAsyncCalls(AsyncInfoOf(H)).info IN
       \E setupOrder, sendOrder \in Orders(pending.asyncContextMap),
          storeOk, sendOk \in BOOLEAN :
         LET e == processAsyncInfoEnd(H, setupOrder, sendOrder, storeOk,
                                      sendOk)
         IN
         \* an answer that is not consulted is left at TRUE
         /\ DOMAIN pending.asyncContextMap = {} => storeOk
         /\ ~storeOk => sendOk
         /\ IF e.panic # Nil
            THEN Apply(Panicked(e.h, "setupAsyncCallsGasByPercentages",
                                e.panic))
            ELSE Apply(OwnerReturn(e.h, Front(calls), e.err, e.pending, sendOk))

(***************************************************************************)
(* Dispatches of the async protocol: a call that registers async calls of  *)
(* every shape, and the callbacks that come back from the other shards.    *)
(***************************************************************************)
\* RunSmartContractCall for a direct or an asynchronous call
RunAsynchronousCall ==
    /\ calls = <<>>
    /\ \E input \in CallInputs("user", {"DirectCall", "AsynchronousCall"}) :
         LET r == doRunSmartContractCallBegin(input, chain, <<>>) IN
         IF r.entered
         THEN Apply([h |-> r.h,
                     calls |-> <<[kind |-> "guest",
                                  op |-> "RunSmartContractCall",
                                  function |-> input.function,
                                  depths |-> StackDepths(r.h)]>>,
                     last |-> Nothing])
         ELSE Apply(RunReturn(r.h, r.err, r.err))

CallbackCallers == {"R", "S"}           \* the shards that answer
StoredMapOf(buff) ==
    IF Unmarshal(buff).err # Nil THEN EmptyMap
    ELSE Unmarshal(buff).info.asyncContextMap

CallbackInputs ==
    [recipientAddr : Contracts, function : {CallBackFunctionName, "f"},
     vmInput : [callerAddr : CallbackCallers \cup {"T"}, gasProvided : {MaxGas},
                gasLocked : {0}, callType : {"AsynchronousCallBack"},
                callValue : {0}]]

\* RunSmartContractCall for a callback that arrives from another shard, once
\* the result of the dispatch before it is committed
RunCallBack ==
    /\ calls = <<>>
    /\ last.op = "RunSmartContractCall" => last.committed
    /\ history.extra = Nil
    /\ \E input \in CallbackInputs,
          order \in Orders(StoredMapOf(StoredAt(chain, "A"))) :
         LET r == doRunSmartContractCallBegin(input, chain, order) IN
         IF r.entered
         THEN Apply([h |-> r.h,
                     calls |-> <<[kind |-> "guest",
                                  op |-> "RunSmartContractCall",
                                  function |-> input.function,
                                  depths |-> StackDepths(r.h)]>>,
                     last |-> Nothing])
         ELSE Apply(RunReturn(r.h, r.err, r.err))

\* RunSmartContractCall for a direct or an asynchronous call that arrives
\* while pending calls are stored
StoredCallInputs ==
    [recipientAddr : Contracts, function : {CallBackFunctionName, "f"},
     vmInput : [callerAddr : CallbackCallers, gasProvided : {MaxGas},
                gasLocked : {0}, callType : {"DirectCall", "AsynchronousCall"},
                callValue : {0}]]

RunStoredCall ==
    /\ calls = <<>>
    /\ last.op = "RunSmartContractCall" => last.committed
    /\ history.extra = Nil
    /\ \E input \in StoredCallInputs,
          order \in Orders(StoredMapOf(StoredAt(chain, "A"))) :
         LET r == doRunSmartContractCallBegin(input, chain, order) IN
         IF r.entered
         THEN Apply([h |-> r.h,
                     calls |-> <<[kind |-> "guest",
                                  op |-> "RunSmartContractCall",
                                  function |-> input.function,
                                  depths |-> StackDepths(r.h)]>>,
                     last |-> Nothing])
         ELSE Apply(RunReturn(r.h, r.err, r.err))

\* what processCallbackStack did, kept with the result of the dispatch
WithCallbackStack(t, drained, deliver) ==
    [t EXCEPT !.last = [drained |-> drained, deliver |-> deliver] @@ @]

\* the guest of a callback dispatch returns: processCallbackStack
ReturnToRunCallBack ==
    /\ InGuest /\ Top.op = "RunSmartContractCall"
    /\ runtime.active.vmInput.callType = "AsynchronousCallBack"
    /\ \E outcome \in GuestOutcomes, storeOk, inputOk, sendOk, funds \in BOOLEAN,
          order \in Orders(StoredMapOf(GetStorage(H, chain))) :
         LET h == GuestExit(H, outcome)
             err == handleBreakpointIfAny(outcome)
             r == processCallbackStackBegin(h, chain, order, storeOk, inputOk,
                                            sendOk)
             \* what is consulted when every answer is favourable
             r1 == processCallbackStackBegin(h, chain, order, TRUE, TRUE, TRUE)
             canonical ==
                 /\ err # Nil => storeOk /\ inputOk /\ sendOk /\ funds
                                 /\ order = CHOOSE o \in Orders(StoredMapOf(
                                                GetStorage(H, chain))) : TRUE
                 /\ r1.deliver = "none" => storeOk /\ inputOk /\ sendOk /\ funds
                 /\ r1.deliver = "sent" => inputOk /\ funds
                 /\ r1.deliver = "execute" => sendOk
                 /\ ~storeOk => inputOk /\ sendOk /\ funds
                 /\ ~inputOk => funds
             h1 == [r.h EXCEPT !.events =
                       Append(@, [e |-> "callback", position |-> <<>>,
                                  function |-> CallBackFunctionName])]
         IN
         /\ canonical
         /\ IF err # Nil THEN Apply(RunReturn(h, err, err))
            ELSE IF r.deliver = "execute"
            THEN Apply(CallDest(h1,
                     <<[Top EXCEPT !.kind = "owner"],
                       HostFrame("processCallbackStack", "callback", <<>>)>>,
                     r.input, funds, CHOOSE bi \in BuiltinAnswers : TRUE))
            ELSE Apply(WithCallbackStack(RunReturn(r.h, r.err, r.err),
                                         r.drained, r.deliver))

\* processCallbackStack, lines 813-818, and the end of the dispatch
processCallbackStackResume ==
    /\ InHost("processCallbackStack", "afterCallback")
    /\ \E err \in processCallbackVMOutputAnswers(Top.ret.err) :
         Apply(WithCallbackStack(RunReturn(H, err, err), TRUE, "execute"))

\* the node commits the storage updates of a dispatch that returned Ok
Committed(committed, vmOutput) ==
    IF vmOutput.returnCode = "Ok" THEN vmOutput.storageUpdates @@ committed
    ELSE committed

\* a callback that succeeded answers one of the stored calls not answered yet;
\* the first callback after all are answered is the extra one
Answered(h, result) ==
    LET c == result.caller
        left == {d \in DOMAIN h.remaining : h.remaining[d] > 0}
    IN IF left = {}
       THEN [h EXCEPT !.extra = result.vmOutput.returnCode]
       ELSE IF result.vmOutput.returnCode = "Ok" /\ c \in left
       THEN [h EXCEPT !.remaining[c] = @ - 1]
       ELSE h

NodeCommit ==
    /\ calls = <<>>
    /\ last.op = "RunSmartContractCall" /\ ~last.committed
    /\ chain' = Committed(chain, last.vmOutput)
    /\ history' = Answered(history, last)
    /\ last' = [last EXCEPT !.committed = TRUE]
    /\ UNCHANGED <<bigInt, output, runtime, storage, metering, instances,
                   hostContexts, events, calls>>

\* the pending calls a dispatch may have stored: MaxStored calls at most, in
\* every context one call at least, each to another shard, all pending
MaxStored == 2
StoredCalls ==
    UNION {[1..n -> {NewAsyncCall(d, 40) : d \in CallbackCallers}] :
              n \in 1..MaxStored}
StoredInfos ==
    {i \in {[callerAddr |-> c, returnData |-> <<>>, asyncContextMap |-> m] :
               c \in {"user", "R"},
               m \in UNION {[ids -> {[NewAsyncContext EXCEPT !.asyncCalls = q] :
                                          q \in StoredCalls}] :
                               ids \in (SUBSET ContextIdentifiers) \ {{}}}} :
        NumCalls(i.asyncContextMap) <= MaxStored}

Destinations(info) ==
    LET all == CallsInOrder(info.asyncContextMap,
                            CHOOSE o \in Orders(info.asyncContextMap) : TRUE)
    IN [d \in {all[i].destination : i \in DOMAIN all} |->
           Cardinality({i \in DOMAIN all : all[i].destination = d})]

InitCallBack ==
    /\ bigInt = InitState.bigInt
    /\ output = InitState.output
    /\ runtime = InitState.runtime
    /\ storage = InitState.storage
    /\ metering = InitState.metering
    /\ instances = InitState.instances
    /\ hostContexts = InitState.hostContexts
    /\ events = InitState.events
    /\ \E info \in StoredInfos :
         /\ chain = ("A" :> Marshal(info))
         /\ history = [stored |-> info, remaining |-> Destinations(info),
                       extra |-> Nil]
    /\ calls = <<>>
    /\ last = Nothing

(***************************************************************************)
(* The metering context on its own: a dispatch is begun, gas is used and   *)
(* forwarded, states are pushed and popped, and the dispatch ends with the *)
(* accounting of a success or of a failure.                                *)
(***************************************************************************)
MaxTransfers == 1
MaxPushes == 1
MaxAccountings == 2
MeterAddresses == {"A", "B"}
\* the dispatch in progress: how many states it pushed, how many times the
\* gas state was updated on success, and whether that failed
MeterFrame == [kind |-> "meter", pushes |-> 0, accountings |-> 0,
               failed |-> FALSE]
InMeter == calls # <<>> /\ Top.kind = "meter" /\ ~Top.failed
NumTransfers(h) ==
    SumFun([a \in DOMAIN GetOutputAccounts(h) |->
               Len(GetOutputAccounts(h)[a].outputTransfers)])

\* a dispatch begins: every context is reset, the metering context is
\* initialized from the input and the initial cost is deducted
MeterBegin ==
    /\ calls = <<>>
    /\ \E address \in {"A"}, gasProvided \in {0, MaxGas - 1},
          callType \in {"DirectCall", "AsynchronousCallBack"} :
         LET gasLocked == IF callType = "AsynchronousCallBack" THEN 1 ELSE 0
             vmInput == [callerAddr |-> "user", gasProvided |-> gasProvided,
                         gasLocked |-> gasLocked, callType |-> callType,
                         callValue |-> 0]
             i == MeteringInitStateFromContractCallInput(InitState.metering,
                                                         vmInput)
             h0 == [InitState EXCEPT !.metering = i.metering,
                                     !.runtime.active.vmInput = i.vmInput,
                                     !.runtime.active.scAddress = address,
                                     !.instances.instance = NewInstance]
             d == DeductInitialGasForExecution(h0, 1)
         IN /\ Install(d.h)
            /\ calls' = <<MeterFrame>>
            /\ last' = [op |-> "InitStateFromContractCallInput",
                        vmInput |-> vmInput, err |-> d.err]

MeterUseGas ==
    /\ InMeter
    /\ GetPointsUsed(H) < MaxGas
    /\ \E gas \in {2} :
         /\ Install(UseGas(H, gas))
         /\ last' = Nothing
    /\ UNCHANGED calls

\* gas is forwarded: used here, and carried by a transfer to `destination`
MeterTransfer ==
    /\ InMeter
    /\ NumTransfers(H) < MaxTransfers
    /\ \E destination \in MeterAddresses, gasLimit \in {1},
          gasLocked \in {1} :
         LET h1 == GetOutputAccount(UseGas(H, gasLimit + gasLocked),
                                    destination)
         IN /\ Install([h1 EXCEPT
                   !.output.active.accounts[destination].outputTransfers =
                       Append(@, [gasLimit |-> gasLimit,
                                  gasLocked |-> gasLocked])])
            /\ last' = Nothing
    /\ UNCHANGED calls

MeterPushState ==
    /\ InMeter
    /\ Top.pushes < MaxPushes
    /\ Install([H EXCEPT !.metering = MeteringPushState(@)])
    /\ last' = Nothing
    /\ calls' = <<[Top EXCEPT !.pushes = @ + 1]>>

MeterPopSetActiveState ==
    /\ InMeter
    /\ metering.stateStack # <<>>
    /\ Install([H EXCEPT !.metering = MeteringPopSetActiveState(@)])
    /\ last' = Nothing
    /\ UNCHANGED calls

MeterPopDiscard ==
    /\ InMeter
    /\ metering.stateStack # <<>>
    /\ Install([H EXCEPT !.metering = MeteringPopDiscard(@)])
    /\ last' = Nothing
    /\ UNCHANGED calls

MeterPopMergeActiveState ==
    /\ InMeter
    /\ metering.stateStack # <<>>
    /\ Install([H EXCEPT !.metering = MeteringPopMergeActiveState(@)])
    /\ last' = Nothing
    /\ UNCHANGED calls

\* the contract at the other address runs (a sub-call on this host)
MeterSetContextAddress ==
    /\ InMeter
    /\ \E address \in MeterAddresses \ {GetContextAddress(H)} :
         Install([H EXCEPT !.runtime.active.scAddress = address])
    /\ last' = Nothing
    /\ UNCHANGED calls

\* the dispatch ends without a failure
MeterEnd ==
    /\ InMeter
    /\ Top.accountings > 0
    /\ calls' = <<>>
    /\ last' = Nothing
    /\ UNCHANGED <<bigInt, output, runtime, storage, metering, instances,
                   hostContexts, events, chain, history>>

\* a call succeeded: the VMOutput carries the gas left; an accounting that
\* fails makes the dispatch a failed one
MeterSuccess ==
    /\ InMeter
    /\ Top.accountings < MaxAccountings
    /\ LET gasRemaining == GasLeft(H)
           r == UpdateGasStateOnSuccess(H, gasRemaining)
       IN /\ Install(r.h)
          /\ calls' = <<[Top EXCEPT !.accountings = @ + 1,
                                         !.failed = r.err # Nil]>>
          /\ last' = [op |-> "UpdateGasStateOnSuccess", err |-> r.err,
                      gasRemaining |-> gasRemaining,
                      gasProvided |-> GetGasProvided(H)]

\* the dispatch failed: the VMOutput is the one made for the error
MeterFailure ==
    /\ calls # <<>> /\ Top.kind = "meter"
    /\ \E err \in {IF last.op = "UpdateGasStateOnSuccess" THEN last.err
                   ELSE "ErrExecutionFailed"} :
         /\ Install(UpdateGasStateOnFailure(H))
         /\ calls' = <<>>
         /\ last' = [op |-> "UpdateGasStateOnFailure",
                     address |-> GetContextAddress(H),
                     gasProvided |-> GetGasProvided(H),
                     vmOutput |-> CreateVMOutputInCaseOfError(H, err)]

NextMeter ==
    \/ MeterBegin
    \/ MeterUseGas
    \/ MeterTransfer
    \/ MeterPushState
    \/ MeterPopSetActiveState
    \/ MeterPopDiscard
    \/ MeterPopMergeActiveState
    \/ MeterSetContextAddress
    \/ MeterSuccess
    \/ MeterEnd
    \/ MeterFailure

SpecMeter == Init /\ [][NextMeter]_vars

Next ==
    \/ RunSmartContractCall
    \/ ReturnToRun
    \/ GuestWork
    \/ GuestSetReadOnly
    \/ GuestExecuteOnDestContext
    \/ ReturnFromDest
    \/ GuestExecuteOnSameContext
    \/ ReturnFromSame
    \/ GuestCreateNewContract
    \/ ReturnFromCreate
    \/ GuestAsyncCall
    \/ processAsyncCall
    \/ processAsyncCallResume
    \/ callbackAsyncResume
    \/ processAsyncInfoFinish

Spec == Init /\ [][Next]_vars

NextAsync ==
    \/ RunAsynchronousCall
    \/ ReturnToRun
    \/ GuestCreateAsyncCall
    \/ GuestCreateAsyncContext
    \/ ReturnFromDest
    \/ processAsyncCall
    \/ processAsyncCallResume
    \/ callbackAsyncResume
    \/ processAsyncInfoFinish

SpecAsync == Init /\ [][NextAsync]_vars

NextCallBack ==
    \/ RunCallBack
    \/ NodeCommit
    \/ ReturnToRunCallBack
    \/ processCallbackStackResume
    \/ ReturnFromDest

SpecCallBack == InitCallBack /\ [][NextCallBack]_vars

\* the callback dispatches, and direct and asynchronous calls among them
NextEntry ==
    \/ RunCallBack
    \/ RunStoredCall
    \/ NodeCommit
    \/ ReturnToRun
    \/ ReturnToRunCallBack
    \/ processCallbackStackResume
    \/ ReturnFromDest

SpecEntry == InitCallBack /\ [][NextEntry]_vars

\* one dispatch of any call type on a contract that stored pending calls,
\* with a guest that registers async calls
NextDispatch ==
    \/ RunCallBack
    \/ RunStoredCall
    \/ ReturnToRun
    \/ ReturnToRunCallBack
    \/ processCallbackStackResume
    \/ GuestCreateAsyncCall
    \/ GuestCreateAsyncContext
    \/ ReturnFromDest
    \/ processAsyncCall
    \/ processAsyncCallResume
    \/ callbackAsyncResume
    \/ processAsyncInfoFinish

\* the contract stored one pending call of a dispatch of the user
InitDispatch ==
    /\ InitCallBack
    /\ history.stored.callerAddr = "user"
    /\ NumCalls(history.stored.asyncContextMap) = 1

SpecDispatch == InitDispatch /\ [][NextDispatch]_vars

(***************************************************************************)
(* The metering and runtime contexts on their own: functions of one of     *)
(* them are applied one after the other, to inputs drawn from small sets,  *)
(* as a host does during a dispatch.  A run applies the gas arithmetic of  *)
(* the metering context ("gas"), or the state stack of the metering or of  *)
(* the runtime context.  `last` names the function applied and what it was *)
(* given; the frame keeps the active states as they were when PushState    *)
(* was called.                                                             *)
(***************************************************************************)
StateContexts == {"metering", "runtime"}
StatesRuns == StateContexts \cup {"gas"}
\* pushes, accountings: how many times the run pushed a state and updated
\* the gas state
StatesFrame(c) == [kind |-> "states", context |-> c, pushed |-> <<>>, pushes |-> 0, accountings |-> 0]
InStates(c) == calls # <<>> /\ Top.kind = "states" /\ Top.context = c
ActiveOf(h, c) == IF c = "metering" THEN MeteringState(h.metering) ELSE h.runtime.active
\* what a pop finds: the depth of the stack, and whether the active state
\* differs from the snapshot on top
Found(op, c) ==
    [op |-> op, depth |-> Len(H[c].stateStack),
     changed |-> H[c].stateStack # <<>> /\ ActiveOf(H, c) # Last(H[c].stateStack)]
\* how the frame's record follows a pop
Popped == [Top EXCEPT !.pushed = IF @ = <<>> THEN @ ELSE Front(@)]

\* metering.go:292-296
MeteringClearStateStack(m) == [m EXCEPT !.stateStack = <<>>]

StateVMInputs ==
    [callerAddr : {"user"}, gasProvided : {1, MaxGas - 2}, gasLocked : {0, 1},
     callType : {"DirectCall", "AsynchronousCallBack"}, callValue : {0}]

\* the host binds an input: at the start of a dispatch and for a sub-call,
\* whose output starts blank
CtxInitStateFromContractCallInput ==
    /\ \E c \in StatesRuns, vmInput \in StateVMInputs :
         LET i == MeteringInitStateFromContractCallInput(metering, vmInput)
             r == RuntimeInitStateFromContractCallInput(
                      runtime, [vmInput |-> i.vmInput, recipientAddr |-> "A",
                                function |-> "f"])
         IN /\ InStates(c)
            /\ Install([H EXCEPT !.metering = i.metering, !.runtime = r,
                                 !.output = CensorVMOutput(@),
                                 !.instances.instance = NewInstance])
            /\ UNCHANGED calls
            /\ last' = [op |-> "InitStateFromContractCallInput",
                        vmInput |-> vmInput]

\* in a run on the state stack the cost is deducted as the host does it,
\* right after the input is bound
CtxDeductInitialGas ==
    /\ \/ InStates("gas")
       \/ InStates("metering") /\ last.op = "InitStateFromContractCallInput"
    /\ \E codeLength \in {1, 2} :
         LET d == DeductInitialGasForExecution(H, codeLength) IN
         /\ Install(d.h)
         /\ last' = [op |-> "deductInitialGas", codeLength |-> codeLength,
                     err |-> d.err]
    /\ UNCHANGED calls

CtxUseGas ==
    /\ InStates("gas") \/ InStates("metering")
    /\ GetPointsUsed(H) < MaxGas
    /\ Install(UseGas(H, 2))
    /\ last' = [op |-> "UseGas"]
    /\ UNCHANGED calls

CtxUseGasBounded ==
    /\ InStates("gas")
    /\ \E gasToUse \in {1, 2} :
         LET r == UseGasBounded(H, gasToUse) IN
         /\ Install(r.h)
         /\ last' = [op |-> "UseGasBounded", gasToUse |-> gasToUse,
                     err |-> r.err]
    /\ UNCHANGED calls

CtxRestoreGas ==
    /\ InStates("gas")
    /\ \E gas \in {1, MaxGas - 2} :
         /\ Install(RestoreGas(H, gas))
         /\ last' = [op |-> "RestoreGas", gas |-> gas]
    /\ UNCHANGED calls

CtxBoundGasLimit ==
    /\ InStates("gas")
    /\ \E value \in {-1, 0, 2, MaxGas + 1} :
         last' = [op |-> "BoundGasLimit", value |-> value,
                  limit |-> BoundGasLimit(H, value)]
    /\ UNCHANGED <<bigInt, output, runtime, storage, metering, instances,
                   hostContexts, events, chain, history, calls>>

\* the per-account gas map is written by the accounting of a success
CtxUpdateGasStateOnSuccess ==
    /\ InStates("metering")
    /\ Top.accountings < MaxAccountings
    /\ Install(UpdateGasStateOnSuccess(H, GasLeft(H)).h)
    /\ last' = [op |-> "UpdateGasStateOnSuccess"]
    /\ calls' = <<[Top EXCEPT !.accountings = @ + 1]>>

\* the runtime's setters: SetSCAddress, SetReadOnly
CtxSetRuntime ==
    /\ InStates("runtime")
    /\ \E address \in MeterAddresses, readOnly \in BOOLEAN :
         Install([H EXCEPT !.runtime.active.scAddress = address,
                           !.runtime.active.readOnly = readOnly])
    /\ last' = [op |-> "SetRuntime"]
    /\ UNCHANGED calls

CtxPushState ==
    /\ \E c \in StateContexts :
         /\ InStates(c)
         /\ Top.pushes < MaxPushes
         /\ Install(IF c = "metering"
                    THEN [H EXCEPT !.metering = MeteringPushState(@)]
                    ELSE [H EXCEPT !.runtime = PushState(@)])
         /\ calls' = <<[Top EXCEPT !.pushed = Append(@, ActiveOf(H, c)),
                                   !.pushes = @ + 1]>>
         /\ last' = [op |-> "PushState"]

CtxPopSetActiveState ==
    /\ \E c \in StateContexts :
         /\ InStates(c)
         /\ Install(IF c = "metering"
                    THEN [H EXCEPT !.metering = MeteringPopSetActiveState(@)]
                    ELSE [H EXCEPT !.runtime = PopSetActiveState(@)])
         /\ calls' = <<Popped>>
         /\ last' = Found("PopSetActiveState", c)

CtxPopDiscard ==
    /\ \E c \in StateContexts :
         /\ InStates(c)
         /\ Install(IF c = "metering"
                    THEN [H EXCEPT !.metering = MeteringPopDiscard(@)]
                    ELSE [H EXCEPT !.runtime = PopDiscard(@)])
         /\ calls' = <<Popped>>
         /\ last' = Found("PopDiscard", c)

CtxPopMergeActiveState ==
    /\ InStates("metering")
    /\ Install([H EXCEPT !.metering = MeteringPopMergeActiveState(@)])
    /\ calls' = <<Popped>>
    /\ last' = Found("PopMergeActiveState", "metering")

\* runtime.PopInstance, the instance stack being empty
CtxPopInstance ==
    /\ InStates("runtime")
    /\ Install(PopInstance(H))
    /\ last' = [op |-> "PopInstance", depth |-> Len(instances.instanceStack)]
    /\ UNCHANGED calls

CtxClearStateStack ==
    /\ \E c \in StateContexts :
         /\ InStates(c)
         /\ Install(IF c = "metering"
                    THEN [H EXCEPT !.metering = MeteringClearStateStack(@)]
                    ELSE [H EXCEPT !.runtime.stateStack = <<>>])
         /\ calls' = <<[Top EXCEPT !.pushed = <<>>]>>
         /\ last' = Found("ClearStateStack", c)

\* the blank contexts of a new host, about to run on `c`
InitStatesRun(c) ==
    /\ bigInt = InitState.bigInt
    /\ output = InitState.output
    /\ runtime = InitState.runtime
    /\ storage = InitState.storage
    /\ metering = InitState.metering
    /\ instances = InitState.instances
    /\ hostContexts = InitState.hostContexts
    /\ events = InitState.events
    /\ chain = EmptyMap
    /\ history = NoHistory
    /\ calls = <<StatesFrame(c)>>
    /\ last = Nothing

InitGas == InitStatesRun("gas")

NextGas ==
    \/ CtxInitStateFromContractCallInput
    \/ CtxDeductInitialGas
    \/ CtxUseGas
    \/ CtxUseGasBounded
    \/ CtxRestoreGas
    \/ CtxBoundGasLimit

SpecGas == InitGas /\ [][NextGas]_vars

InitStates == \E c \in StateContexts : InitStatesRun(c)

NextStates ==
    \/ CtxInitStateFromContractCallInput
    \/ CtxDeductInitialGas
    \/ CtxUseGas
    \/ CtxUpdateGasStateOnSuccess
    \/ CtxSetRuntime
    \/ CtxPushState
    \/ CtxPopSetActiveState
    \/ CtxPopDiscard
    \/ CtxPopMergeActiveState
    \/ CtxPopInstance
    \/ CtxClearStateStack

SpecStates == InitStates /\ [][NextStates]_vars

(***************************************************************************)
(* Properties of the sub-call protocol, checked under Spec.                *)
(***************************************************************************)
SubCallOps == {"ExecuteOnDestContext", "ExecuteOnSameContext",
               "CreateNewContract"}

\* C1: when ExecuteOnDestContext returns an error (failed transfer, failed
\* execute or failed processAsyncInfo), the bigint, output, runtime and
\* storage contexts are as before the call: same state stacks (depth and
\* content) and same active state.
C1_DestErrorRestoresContexts ==
    (last.op = "ExecuteOnDestContext" /\ last.err # Nil)
        => ContextsOf(H) = last.pre

\* ExecuteOnDestContext failed in processAsyncInfo, called by a contract
\* that had output of its own
C1_Witness ==
    /\ last.op = "ExecuteOnDestContext"
    /\ last.err # Nil
    /\ last.stage = "processAsyncInfo"
    /\ last.pre.output.active.transfers # <<>>

\* C9: execute and CreateNewContract pair every PushInstance with one
\* PopInstance and every AddHostContext with one RemoveHostContext on every
\* exit path: once the operation has returned, the instance-stack depth and
\* the registered host-context ids are those of its entry.
C9_EngineBalanced ==
    last.op \in SubCallOps => EngineOf(H) = last.engine

\* CreateNewContract returned an error from under a running instance
C9_Witness ==
    /\ last.op = "CreateNewContract"
    /\ last.err # Nil
    /\ last.stage = "execute"
    /\ last.engine.depth >= 1

\* C10: once a sub-call (with whatever it nested) has returned, with success
\* or error, every state stack has the depth it had before; outside of a
\* dispatch all state stacks have the same depth.
C10_StackDepthsRestored ==
    /\ last.op \in SubCallOps => StackDepths(H) = last.preDepths
    /\ calls = <<>> =>
           \A a, b \in DOMAIN StackDepths(H) :
               StackDepths(H)[a] = StackDepths(H)[b]

\* ExecuteOnSameContext succeeded from inside another sub-call
C10_Witness ==
    /\ last.op = "ExecuteOnSameContext"
    /\ last.err = Nil
    /\ last.preDepths.output >= 1

(***************************************************************************)
(* Properties of the dispatch of callbacks from other shards, stated for   *)
(* SpecCallBack.  history.stored is the pending set the first dispatch     *)
(* stored; history.remaining counts, per destination, the stored calls not *)
(* yet answered by a callback dispatch that returned Ok and was committed. *)
(***************************************************************************)
StoredNow == StoredAt(chain, "A")
AllAnswered == \A d \in DOMAIN history.remaining : history.remaining[d] = 0
CallBackReturned ==
    /\ last.op = "RunSmartContractCall"
    /\ last.callType = "AsynchronousCallBack"
CallBackOk == CallBackReturned /\ last.vmOutput.returnCode = "Ok"

\* C4: for N stored pending calls, the N callback dispatches, one from each
\* stored destination, drain the stored pending map, and the callback
\* dispatch after them returns CallBackFuncNotExpected.
C4_CallbacksDrainStoredMap ==
    /\ (AllAnswered /\ calls = <<>> /\ (CallBackReturned => last.committed))
           => StoredMapOf(StoredNow) = EmptyMap
    /\ history.extra # Nil => history.extra = "ErrCallBackFuncNotExpected"

\* every stored call was answered by a committed callback
C4_Witness ==
    /\ AllAnswered
    /\ NumCalls(history.stored.asyncContextMap) >= 2
    /\ CallBackOk /\ last.committed

\* C5: after a callback dispatch whose caller matches one of k >= 2 stored
\* calls, the stored pending map holds exactly the other k-1 calls.
C5_MatchedCallRemovedFromStorage ==
    LET before == StoredMapOf(last.storedBefore)
        all == CallsInOrder(before, CHOOSE o \in Orders(before) : TRUE)
    IN (/\ CallBackOk /\ last.committed
        /\ NumCalls(before) >= 2
        /\ \E i \in DOMAIN all : all[i].destination = last.caller)
       => NumCalls(StoredMapOf(StoredNow)) = NumCalls(before) - 1

\* a committed callback that matched one of two stored calls
C5_Witness ==
    LET before == StoredMapOf(last.storedBefore)
        all == CallsInOrder(before, CHOOSE o \in Orders(before) : TRUE)
    IN /\ CallBackOk /\ last.committed
       /\ NumCalls(before) >= 2
       /\ \E i \in DOMAIN all : all[i].destination = last.caller

\* the callback whose dispatch just returned answers the last stored call
\* that was not answered yet
AnswersLastPending ==
    /\ CallBackReturned /\ ~last.committed
    /\ last.caller \in DOMAIN history.remaining
    /\ history.remaining[last.caller] = 1
    /\ \A d \in DOMAIN history.remaining \ {last.caller} :
           history.remaining[d] = 0
\* it answers one of several
AnswersOneOfMany ==
    /\ CallBackReturned /\ ~last.committed
    /\ last.caller \in DOMAIN history.remaining
    /\ history.remaining[last.caller] >= 1
    /\ ~AnswersLastPending
Erased(vmOutput) ==
    /\ "A" \in DOMAIN vmOutput.storageUpdates
    /\ vmOutput.storageUpdates["A"] = NoBuffer

\* C6: when the incoming callback removes the last pending entry, the key
\* is erased and the initiator's callback is delivered once, by
\* ExecuteOnDestContext when the initiator is on this shard and by
\* sendStorageCallbackToDestination otherwise; when entries remain, the key
\* is not erased and nothing is delivered.
C6_LastCallbackErasesAndDelivers ==
    /\ (AnswersLastPending /\ last.vmOutput.returnCode = "Ok")
           => /\ last.drained
              /\ Erased(last.vmOutput)
              /\ last.deliver =
                     IF canExecuteSynchronouslyOnDest(history.stored.callerAddr)
                     THEN "execute" ELSE "sent"
    /\ (AnswersOneOfMany /\ last.vmOutput.returnCode = "Ok")
           => /\ ~last.drained
              /\ ~Erased(last.vmOutput)
              /\ last.deliver = "none"

\* the last of two stored calls is answered
C6_Witness ==
    /\ AnswersLastPending
    /\ last.vmOutput.returnCode = "Ok"
    /\ NumCalls(history.stored.asyncContextMap) >= 2

(***************************************************************************)
(* Properties of the dispatcher's error handling.                          *)
(***************************************************************************)
\* C7: every error that arises in a dispatch, a failure of processAsyncInfo
\* in a call of type AsynchronousCall included, gives a VMOutput whose
\* return code is not Ok.
C7_ErrorsSurface ==
    (last.op = "RunSmartContractCall" /\ last.arisen # Nil)
        => last.vmOutput.returnCode # "Ok"

\* a dispatch of type AsynchronousCall in which processAsyncInfo failed
C7_Witness ==
    /\ last.op = "RunSmartContractCall"
    /\ last.callType = "AsynchronousCall"
    /\ last.arisen # Nil
    /\ last.vmOutput.returnCode = "Ok"

\* C8: no dispatch and no sub-call panics: processAsyncInfo,
\* processAsyncCall, getPendingAsyncCalls and
\* setupAsyncCallsGasByPercentages complete or return an error.
C8_NoPanic == ~HasPanicked

\* a panic while the async calls of a contract are processed
C8_Witness == HasPanicked /\ Top.cause = "nil pointer dereference"

(***************************************************************************)
(* Properties of the final gas accounting, checked under SpecMeter.        *)
(***************************************************************************)
\* the gas the output accounts show: used, forwarded and locked
GasOfAccounts ==
    LET accounts == output.active.accounts
        transfers(a) == accounts[a].outputTransfers
    IN SumFun([a \in DOMAIN accounts |-> accounts[a].gasUsed])
       + SumFun([a \in DOMAIN accounts |->
                    SumFun([i \in DOMAIN transfers(a) |-> transfers(a)[i].gasLimit])])
       + SumFun([a \in DOMAIN accounts |->
                    SumFun([i \in DOMAIN transfers(a) |-> transfers(a)[i].gasLocked])])

\* C2: when UpdateGasStateOnSuccess returns without error, the GasUsed of
\* all output accounts, plus the GasLimit and GasLocked of all their output
\* transfers, plus vmOutput.GasRemaining, is the gas provided to the
\* dispatch; when that sum differs from the gas provided, it returns
\* ErrInputAndOutputGasDoesNotMatch.
C2_GasAccountedOnSuccess ==
    last.op = "UpdateGasStateOnSuccess" =>
        LET total == GasOfAccounts + last.gasRemaining IN
        /\ last.err = Nil => total = last.gasProvided
        /\ total # last.gasProvided
               => last.err = "ErrInputAndOutputGasDoesNotMatch"

\* an accounting without error over two accounts, one of which received gas
C2_Witness ==
    /\ last.op = "UpdateGasStateOnSuccess"
    /\ last.err = Nil
    /\ Cardinality(DOMAIN output.active.accounts) >= 2
    /\ NumTransfers(H) >= 1
    /\ last.gasRemaining >= 1

\* C3: for a failed dispatch, the VMOutput returned has GasRemaining 0 and,
\* after UpdateGasStateOnFailure, the output account of the current
\* contract address has GasUsed equal to the gas provided in the input.
C3_FailureChargesGasProvided ==
    last.op = "UpdateGasStateOnFailure" =>
        /\ last.vmOutput.gasRemaining = 0
        /\ output.active.accounts[last.address].gasUsed = last.gasProvided

\* the dispatch failed because the accounting of its success did not add up
C3_Witness ==
    /\ last.op = "UpdateGasStateOnFailure"
    /\ last.vmOutput.returnCode = "ErrInputAndOutputGasDoesNotMatch"
    /\ output.active.accounts[last.address].gasUsed > last.gasProvided

(***************************************************************************)
(* Properties of the contexts around a sub-call, checked under Spec.       *)
(***************************************************************************)
\* C11: whenever guest code runs (entered by a top-level dispatch,
\* ExecuteOnDestContext, ExecuteOnSameContext or CreateNewContract), the
\* address bound in the storage context is the runtime's SC address.
C11_StorageAddressIsSCAddress ==
    InGuest => storage.active = runtime.active.scAddress

\* the init function of a contract being created is running
C11_Witness ==
    /\ InGuest /\ Top.op = "CreateNewContract"
    /\ storage.active # runtime.active.scAddress

\* the contexts as ExecuteOnSameContext leaves them after its pushes
AfterSamePush ==
    pushExecuteOnSameContext(last.pre,
        (CHOOSE c \in SubCalls("A") : TRUE).in)

\* C12: after ExecuteOnSameContext returned success, the bigint and output
\* state stacks are one entry shallower than after the push, that is as
\* deep as before the call, and the depth of the runtime state stack is the
\* one before the call.
C12_SameSuccessDepths ==
    (last.op = "ExecuteOnSameContext" /\ last.err = Nil) =>
        /\ Len(bigInt.stateStack) = Len(AfterSamePush.bigInt.stateStack) - 1
        /\ Len(output.stateStack) = Len(AfterSamePush.output.stateStack) - 1
        /\ Len(bigInt.stateStack) = Len(last.pre.bigInt.stateStack)
        /\ Len(output.stateStack) = Len(last.pre.output.stateStack)
        /\ Len(runtime.stateStack) = Len(last.pre.runtime.stateStack)

\* ExecuteOnSameContext succeeded from inside a sub-call
C12_Witness ==
    /\ last.op = "ExecuteOnSameContext"
    /\ last.err = Nil
    /\ Len(last.pre.bigInt.stateStack) >= 1

\* C12 as written: the bigint and output stacks are one entry shallower
\* than before the push.
C12_AsWritten ==
    (last.op = "ExecuteOnSameContext" /\ last.err = Nil) =>
        /\ Len(bigInt.stateStack) = Len(last.pre.bigInt.stateStack) - 1
        /\ Len(output.stateStack) = Len(last.pre.output.stateStack) - 1
        /\ Len(runtime.stateStack) = Len(last.pre.runtime.stateStack)

\* C13: after ExecuteOnDestContext returned success, the active states of
\* the bigint, runtime and storage contexts are those before the call, the
\* active output is the caller's output before the call with the child's
\* transfers and return data added, and the VMOutput returned is the
\* child's own output, taken before the pops: nothing of the caller's.
C13_DestSuccessMergesOutput ==
    (last.op = "ExecuteOnDestContext" /\ last.err = Nil) =>
        LET before == last.pre.output.active
            child == last.child.output
        IN /\ bigInt.active = last.pre.bigInt.active
           /\ runtime.active = last.pre.runtime.active
           /\ storage.active = last.pre.storage.active
           /\ output.active.transfers = before.transfers \o child.transfers
           /\ output.active.returnData = before.returnData \o child.returnData
           /\ last.vmOutput.returnCode = child.returnCode
           /\ last.vmOutput.transfers = child.transfers
           /\ last.vmOutput.returnData = child.returnData
           /\ last.vmOutput.storageUpdates = child.storageUpdates

\* a successful sub-call with a transfer of its own, made by a caller that
\* had output already
C13_Witness ==
    /\ last.op = "ExecuteOnDestContext"
    /\ last.err = Nil
    /\ last.child.output.transfers # <<>>
    /\ last.pre.output.active.transfers # <<>>

\* C14: ExecuteOnSameContext never pushes or pops the storage context; on
\* success the active bigint and output states are those the child left and
\* the active runtime state is the caller's before the call; on failure the
\* active bigint, output and runtime states are those before the call.
C14_SameContextFrame ==
    /\ (InGuest /\ Top.op = "ExecuteOnSameContext") => storage = Top.pre.storage
    /\ last.op = "ExecuteOnSameContext" =>
           /\ storage = last.pre.storage
           /\ runtime.active = last.pre.runtime.active
           /\ last.err = Nil => /\ bigInt.active = last.child.bigInt
                                /\ output.active = last.child.output
           /\ last.err # Nil => /\ bigInt.active = last.pre.bigInt.active
                                /\ output.active = last.pre.output.active

\* a successful call on the same context whose child changed the output
C14_Witness ==
    /\ last.op = "ExecuteOnSameContext"
    /\ last.err = Nil
    /\ last.child.output # last.pre.output.active
    /\ last.pre.output.active.transfers # <<>>

(***************************************************************************)
(* Properties of the function names a call may enter, checked under Spec.  *)
(***************************************************************************)
\* the error doRunSmartContractCall meets first for a request naming init:
\* lines 118-134 run before callSCMethod verifies the function name
InitRunError(l) ==
    IF ~HasCode(l.address) THEN "ErrContractNotFound"
    ELSE IF l.gasProvided < GetCodeCost + CodeLen(l.address) * AoTPreparePerByte
    THEN "ErrNotEnoughGas"
    ELSE IF ~CodeIsValid(l.address) THEN "ErrContractInvalid"
    ELSE "ErrInitFuncCalledInRun"

C16_CallBackOnlyInAsyncCallBack ==
    /\ (/\ InGuest /\ Top.op # "CreateNewContract"
        /\ runtime.active.callFunction = CallBackFunctionName) =>
           runtime.active.vmInput.callType = "AsynchronousCallBack"
    /\ (/\ last.op \in {"ExecuteOnDestContext", "ExecuteOnSameContext"}
        /\ last.stage # "transfer"
        /\ last.child.function = CallBackFunctionName
        /\ last.child.callType # "AsynchronousCallBack") =>
           last.err = "ErrCallBackFuncCalledInRun"

C16_Witness ==
    /\ InGuest /\ Top.op = "ExecuteOnDestContext"
    /\ runtime.active.callFunction = CallBackFunctionName
    /\ runtime.active.vmInput.callType = "DirectCall"

(***************************************************************************)
(* Properties of the async calls a dispatch processes, checked under Spec  *)
(* and SpecAsync.                                                          *)
(***************************************************************************)
\* processAsyncCall, line 629: the sub-call of a same-shard async call has
\* returned and left no async call pending
SubCallLeftNothingPending ==
    /\ InHost("processAsyncInfo", "afterCall")
    /\ \/ Top.ret.asyncInfo = NilInfo
       \/ DOMAIN getPendingAsyncCalls(Top.ret.asyncInfo).info.asyncContextMap = {}

\* C17: when the sub-call of a same-shard async call has returned and left
\* no async call pending, the next step sets the call's status (Resolved if
\* the return code is Ok, Rejected otherwise, a failed execution included)
\* and executes the matching callback (SuccessCallback or ErrorCallback)
\* once through ExecuteOnDestContext.
C17_CallbackAfterSameShardCall ==
    [][SubCallLeftNothingPending =>
          LET asyncCall == CallAt(H, Head(Top.todo))
              ok == Top.ret.vmOutput.returnCode = "Ok"
          IN /\ Len(events') = Len(events) + 1
             /\ Last(events') =
                  [e |-> "callback", position |-> Head(Top.todo),
                   function |-> IF ok THEN asyncCall.successCallback
                                ELSE asyncCall.errorCallback,
                   status |-> IF ok THEN "AsyncCallResolved"
                              ELSE "AsyncCallRejected"]]_vars

\* the sub-call of a same-shard async call failed: the step that follows
\* stops in getPendingAsyncCalls
C17_Witness ==
    /\ HasPanicked /\ Top.in = "getPendingAsyncCalls"
    /\ \A i \in DOMAIN events : events[i].e # "callback"

\* the calls of the info being processed, and the gas limits they hold
AllCalls(info) ==
    CallsInOrder(info.asyncContextMap,
                 CHOOSE o \in Orders(info.asyncContextMap) : TRUE)
SumOfGasLimits(info) ==
    SumSeq([i \in 1..Len(AllCalls(info)) |-> AllCalls(info)[i].gasLimit])
TotalPercentage(info) ==
    SumSeq([i \in 1..Len(AllCalls(info)) |-> AllCalls(info)[i].gasPercentage])

\* processAsyncInfo, line 583: the guest function has returned and the gas
\* is partitioned over an info that holds at least one call
SetupStep ==
    /\ InGuest /\ AllCalls(AsyncInfoOf(H)) # <<>>
    /\ \/ InHost("processAsyncInfo", "loop")'
       \/ HasPanicked' /\ Top'.in = "setupAsyncCallsGasByPercentages"

\* C18: setupAsyncCallsGasByPercentages on an info holding at least one call
\* completes and leaves gas limits that sum to metering.GasLeft(): each call
\* holds gasLeft * (percentage / totalPercentage), and one call, the last of
\* the iteration, holds the remainder in addition, whatever the context
\* identifiers are.
C18_GasLimitsSumToGasLeft ==
    [][SetupStep =>
          /\ InHost("processAsyncInfo", "loop")'
          /\ LET all == AllCalls(AsyncInfoOf(H))'
                 gasLeft == GasLeft(H)'
                 total == TotalPercentage(AsyncInfoOf(H))
                 share(c) == gasLeft * (c.gasPercentage \div total)
             IN /\ SumOfGasLimits(AsyncInfoOf(H))' = gasLeft
                /\ \A i \in DOMAIN all : all[i].gasLimit >= share(all[i])
                /\ Cardinality({i \in DOMAIN all :
                                   all[i].gasLimit # share(all[i])}) <= 1]_vars

\* two calls of equal percentage registered under the empty context
\* identifier: each share is 0 and the remainder is given to no call
C18_Witness ==
    /\ InHost("processAsyncInfo", "loop")
    /\ DOMAIN AsyncInfoOf(H).asyncContextMap = {""}
    /\ Len(AllCalls(AsyncInfoOf(H))) = 2
    /\ \A i \in 1..2 : /\ AllCalls(AsyncInfoOf(H))[i].gasPercentage = 40
                       /\ AllCalls(AsyncInfoOf(H))[i].destination = "R"
    /\ SumOfGasLimits(AsyncInfoOf(H)) = 0
    /\ GasLeft(H) > 0

\* the cross-shard records of a dispatch and the calls it stored
AsyncSends(l) ==
    SelectSeq(l.events, LAMBDA e : e.e = "sendAsyncCallToDestination")
StoredCallCount(l) ==
    LET u == l.vmOutput.storageUpdates IN
    IF l.address \notin DOMAIN u THEN 0
    ELSE SumSeq([i \in DOMAIN u[l.address].entries |->
                    Len(u[l.address].entries[i].value.asyncCalls)])

\* processAsyncInfo of the top-level call is about to store and send two
\* calls to another shard, each of gas percentage 40
TwoCrossShardCalls ==
    /\ InHost("processAsyncInfo", "loop") /\ Len(calls) = 2
    /\ Len(AllCalls(AsyncInfoOf(H))) = 2
    /\ \A i \in 1..2 : /\ AllCalls(AsyncInfoOf(H))[i].gasPercentage = 40
                       /\ AllCalls(AsyncInfoOf(H))[i].destination = "R"

\* C19: a dispatch whose contract issued two async calls to another shard,
\* each of gas percentage 40, and which completes without error, leaves two
\* cross-shard records whose gas limits sum to 0.8 times the gas left when
\* processAsyncInfo ran, and a stored pending map that holds the two calls.
C19_TwoCallsOfFortyPercent ==
    [][(/\ TwoCrossShardCalls
        /\ last'.op = "RunSmartContractCall"
        /\ ~last'.failed /\ last'.arisen = Nil) =>
          LET sends == AsyncSends(last') IN
          /\ Len(sends) = 2
          /\ 5 * (sends[1].gasLimit + sends[2].gasLimit) = 4 * GasLeft(H)
          /\ StoredCallCount(last') = 2]_vars

\* such a dispatch: the first record carries no gas, the second all of it
C19_Witness ==
    /\ last.op = "RunSmartContractCall" /\ ~last.failed /\ last.arisen = Nil
    /\ Len(AsyncSends(last)) = 2
    /\ AsyncSends(last)[1].gasLimit = 0
    /\ AsyncSends(last)[2].gasLimit > 0
    /\ StoredCallCount(last) = 2

\* what processAsyncInfo stored and sent to another shard, in a run of events
AsyncWrites(ev) ==
    SelectSeq(ev, LAMBDA e : e.e \in {"SetStorage", "sendAsyncCallToDestination"})
\* the events of the dispatch, kept in `last` once the dispatch returned
EventsOf(l, ev) == IF l.op = "RunSmartContractCall" THEN l.events ELSE ev

\* processAsyncInfo is entered, or ends its range over the same-shard calls,
\* with an info in which no call is Pending
NothingPending ==
    /\ \/ InGuest
       \/ InHost("processAsyncInfo", "loop") /\ Top.todo = <<>>
    /\ DOMAIN getPendingAsyncCalls(AsyncInfoOf(H)).info.asyncContextMap = {}

NothingStoredUnlessPending ==
    [][NothingPending =>
          AsyncWrites(EventsOf(last', events')) = AsyncWrites(events)]_vars

PhaseTwo ==
    /\ InHost("processAsyncInfo", "loop") /\ Top.todo = <<>>
    /\ DOMAIN getPendingAsyncCalls(AsyncInfoOf(H)).info.asyncContextMap # {}
PendingCalls == AllCalls(getPendingAsyncCalls(AsyncInfoOf(H)).info)
\* what the step added to the events of the dispatch
NewEvents ==
    LET ev == EventsOf(last', events') IN SubSeq(ev, Len(events) + 1, Len(ev))
\* the error processAsyncInfo handed to the operation that owns it
ReturnedError(l) == IF l.op = "RunSmartContractCall" THEN l.arisen ELSE l.err
DestinationsOf(q) == [i \in DOMAIN q |-> q[i].destination]
SendsTo(ev) ==
    LET sends == SelectSeq(ev, LAMBDA e : e.e = "sendAsyncCallToDestination")
    IN [i \in DOMAIN sends |-> sends[i].to]
\* the bag of the elements of a sequence
BagOf(q) ==
    LET elems == {q[i] : i \in DOMAIN q} IN
    [x \in elems |-> Cardinality({i \in DOMAIN q : q[i] = x})]
StoreAndSendOrder ==
    /\ AsyncWrites(NewEvents) # <<>> =>
          /\ AsyncWrites(NewEvents)[1].e = "SetStorage"
          /\ AsyncWrites(NewEvents)[1].value
                 = Marshal(getPendingAsyncCalls(AsyncInfoOf(H)).info)
    /\ (\A i \in DOMAIN NewEvents : NewEvents[i].e # "SetStorage") =>
          /\ SendsTo(NewEvents) = <<>>
          /\ ~HasPanicked' /\ ReturnedError(last') # Nil

CallBackDispatched ==
    last.op = "RunSmartContractCall" /\ last.callType = "AsynchronousCallBack"

NoStoredMatch(l) ==
    /\ l.storedBefore # NoBuffer
    /\ \A i \in DOMAIN AllCalls(Unmarshal(l.storedBefore).info) :
          AllCalls(Unmarshal(l.storedBefore).info)[i].destination # l.caller
\* the errors the guest function of a dispatch can end with
GuestErrors == {handleBreakpointIfAny(o) : o \in GuestOutcomes} \ {Nil}

PrologueError(l) ==
    IF ~HasCode(l.address) THEN "ErrContractNotFound"
    ELSE IF GetCodeCost + CodeLen(l.address) * AoTPreparePerByte > l.gasProvided
    THEN "ErrNotEnoughGas"
    ELSE IF ~CodeIsValid(l.address) THEN "ErrContractInvalid"
    ELSE Nil

\* C24: a dispatch stops at the first of its checks that fails, in the
\* order code lookup (ErrContractNotFound), initial cost against the gas
\* provided (ErrNotEnoughGas), instantiation (ErrContractInvalid); no guest
\* function is entered when one of them fails; and when the dispatch has
\* returned, on any path, host.Clean has run.
C24_PrologueOrderAndClean ==
    /\ last.op = "RunSmartContractCall" =>
          /\ PrologueError(last) # Nil =>
                last.failed /\ last.arisen = PrologueError(last)
                /\ last.vmOutput.returnCode = PrologueError(last)
          /\ calls = <<>> /\ hostContexts = {}
          /\ instances = [instance |-> NoInstance, instanceStack |-> <<>>]
    /\ (InGuest /\ Len(calls) = 1) =>
          PrologueError([address |-> runtime.active.scAddress,
                         gasProvided |-> runtime.active.vmInput.gasProvided]) = Nil

\* a request to the contract whose code the engine rejects, with no gas: the
\* gas check comes first
C24_Witness ==
    /\ last.op = "RunSmartContractCall" /\ last.arisen = "ErrNotEnoughGas"
    /\ ~CodeIsValid(last.address) /\ hostContexts = {}

(***************************************************************************)
(* The entry function of a dispatch, checked under SpecEntry.              *)
(***************************************************************************)
\* the SuccessCallback of the stored calls whose destination is the caller
StoredCallbacksFor(caller) ==
    LET u == Unmarshal(StoredAt(chain, "A")) IN
    IF u.err # Nil THEN {}
    ELSE {AllCalls(u.info)[i].successCallback :
             i \in {j \in DOMAIN AllCalls(u.info) :
                       AllCalls(u.info)[j].destination = caller}}

\* C25: the guest function a dispatch enters is, for the call type
\* AsynchronousCallBack, the SuccessCallback of a stored call whose
\* destination is the caller, and input.Function when no stored call
\* matches; for the other call types it is input.Function.
C25_EntryFunction ==
    (InGuest /\ Len(calls) = 1 /\ Top.op = "RunSmartContractCall") =>
        LET custom == StoredCallbacksFor(runtime.active.vmInput.callerAddr) IN
        IF runtime.active.vmInput.callType = "AsynchronousCallBack" /\ custom # {}
        THEN runtime.active.callFunction \in custom
        ELSE runtime.active.callFunction = Top.function

\* a callback that names another function than the stored call's
\* SuccessCallback
C25_Witness ==
    /\ InGuest /\ Len(calls) = 1 /\ Top.op = "RunSmartContractCall"
    /\ runtime.active.vmInput.callType = "AsynchronousCallBack"
    /\ Top.function = "f"
    /\ runtime.active.callFunction = CallBackFunctionName

(***************************************************************************)
(* Properties of the gas a sub-call is lent, checked under Spec.           *)
(***************************************************************************)
\* the fields of the metering context a frame owns
MeterState(m) ==
    [initialGasProvided |-> m.initialGasProvided,
     initialCost |-> m.initialCost, gasForExecution |-> m.gasForExecution]
SubCallKinds == {"ExecuteOnDestContext", "ExecuteOnSameContext"}

\* C26: the metering context moves in lock-step with the runtime context at
\* the boundaries of a sub-call: inside the guest of a sub-call its state
\* stack is as deep as the runtime's, and when ExecuteOnDestContext or
\* ExecuteOnSameContext has returned, the metering state of the caller
\* (initialGasProvided, initialCost, gasForExecution) is what it was before
\* the sub-call.
C26_MeteringInLockStep ==
    [][/\ (InGuest' /\ Top'.op \in SubCallKinds) =>
             Len(metering'.stateStack) = Len(runtime'.stateStack)
       /\ (InGuest /\ calls' = calls /\ last'.op \in SubCallKinds) =>
             MeterState(metering') = MeterState(metering)]_vars

\* a sub-call returned at once and left the gasForExecution that its own
\* deductInitialGas wrote
C26_Witness ==
    /\ InGuest /\ Len(calls) = 1 /\ last.op \in SubCallKinds
    /\ last.err = "ErrContractInvalid"
    /\ metering.stateStack = <<>>
    /\ metering.gasForExecution < runtime.active.vmInput.gasProvided - metering.initialCost

\* the points used on the caller's instance while the guest of a sub-call
\* runs: the instance was pushed after the gas was used on it
LentTo == Last(instances.instanceStack).pointsUsed
\* a guest frame of a sub-call is pushed by the step
SubCallEntered ==
    /\ InGuest' /\ Len(calls') = Len(calls) + 1 /\ Top'.op \in SubCallKinds
\* the guest of a sub-call returns by the step
SubCallReturns ==
    /\ InGuest /\ Top.op \in SubCallKinds /\ calls' # calls
    /\ ~(InGuest' /\ Len(calls') > Len(calls))
\* execute failed in the step (the operation returned with its error)
ExecuteFailed == last'.op \in SubCallKinds /\ last'.err # Nil /\ last'.stage = "execute"
\* what the import that makes the sub-call charges the guest
ImportCharge == IF InGuest THEN 1 ELSE 0

\* C27: execute uses input.GasProvided on the caller's instance before the
\* guest of the sub-call is entered; when execute fails (init name, code
\* not found, not enough gas, instantiation failure, trap, return code not
\* Ok) nothing of it is restored; when it succeeds the caller's points used
\* have increased by input.GasProvided minus the GasLeft() of the sub-call
\* at its end.
C27_GasLentToSubCall ==
    [][/\ SubCallEntered =>
             LentTo' = instances.instance.pointsUsed + ImportCharge
                           + runtime'.active.vmInput.gasProvided
       /\ SubCallReturns =>
             instances'.instance.pointsUsed =
                 IF ExecuteFailed THEN LentTo
                 ELSE LentTo - GasLeft(UnlockGasIfAsyncStep(H))
       /\ (/\ InGuest /\ calls' = calls /\ ExecuteFailed
           /\ last'.child.function \notin protocolBuiltinFunctions) =>
             instances'.instance.pointsUsed =
                 instances.instance.pointsUsed + ImportCharge
                     + last'.child.gasProvided]_vars

\* a sub-call that succeeded and gave gas back to its caller
C27_Witness ==
    /\ InGuest /\ last.op \in SubCallKinds /\ last.err = Nil
    /\ last.child.function \notin protocolBuiltinFunctions
    /\ last.child.gasProvided >= 2
    /\ instances.instance.pointsUsed < 1 + last.child.gasProvided

\* the rest of execute once the guest function has returned without a trap
\* and left a return code that is not Ok
AfterReturnCodeNotOk ==
    executeEnd(GuestExit(H, "okReturnCodeNotOk"), Top.idContext,
               handleBreakpointIfAny("okReturnCodeNotOk"))
\* the contexts the operation pushed are as they were before it
PushedContextsRolledBack(op, h, pre) ==
    /\ h.bigInt = pre.bigInt /\ h.output = pre.output /\ h.runtime = pre.runtime
    /\ op = "ExecuteOnDestContext" => h.storage = pre.storage

\* C28: when the guest function of a sub-call returns without a trap and
\* the output's return code is not Ok, execute returns ErrReturnCodeNotOk,
\* the engine instance is popped, the host-context id is removed, no gas is
\* restored, and the enclosing ExecuteOnDestContext or ExecuteOnSameContext
\* rolls back the contexts it pushed.
C28_ReturnCodeNotOk ==
    [][/\ (InGuest /\ Top.op \in SubCallKinds) =>
             /\ AfterReturnCodeNotOk.err = "ErrReturnCodeNotOk"
             /\ EngineOf(AfterReturnCodeNotOk.h) = Top.engine
             /\ AfterReturnCodeNotOk.h.instances.instance.pointsUsed = LentTo
       /\ (SubCallReturns /\ last'.op \in SubCallKinds
               /\ last'.err = "ErrReturnCodeNotOk") =>
             /\ last'.stage = "execute"
             /\ EngineOf(H') = Top.engine
             /\ instances'.instance.pointsUsed = LentTo
             /\ PushedContextsRolledBack(Top.op, H', Top.pre)]_vars

\* a sub-call whose guest left work behind has failed on its return code
C28_Witness ==
    /\ InGuest /\ last.op \in SubCallKinds /\ last.err = "ErrReturnCodeNotOk"
    /\ last.child.bigInt > bigInt.active

(***************************************************************************)
(* Properties of CreateNewContract, checked under Spec.                    *)
(***************************************************************************)
\* CreateNewContract returned in the step without entering the init function
CreateReturnsAtOnce == InGuest /\ calls' = calls /\ last'.op = "CreateNewContract"
\* the init function of a deployment is entered by the step
CreateEntered ==
    /\ InGuest /\ InGuest' /\ Len(calls') = Len(calls) + 1
    /\ Top'.op = "CreateNewContract"
\* the init function of a deployment returns by the step
CreateReturns ==
    /\ InGuest /\ Top.op = "CreateNewContract" /\ calls' = Front(calls)
\* the points used on the caller's instance
PointsUsed == instances.instance.pointsUsed

\* C29: CreateNewContract uses input.GasProvided on the caller's instance
\* at once; in read-only mode it returns ErrInvalidCallOnReadOnlyMode and
\* pushes no state; after every later failure the runtime's active state
\* and state stack are those before the call and the whole gas stays used;
\* after a success the runtime state is restored and the points used are
\* reduced by the gas left at the end of the deployment.
C29_CreateNewContractGasAndState ==
    [][/\ CreateReturnsAtOnce =>
             /\ runtime' = runtime
             /\ runtime.active.readOnly =>
                    /\ last'.err = "ErrInvalidCallOnReadOnlyMode"
                    /\ StackDepths(H') = StackDepths(H)
             /\ last'.err # Nil =>
                    PointsUsed' = PointsUsed + ImportCharge + last'.gasProvided
             \* no init function ran: the gas left is the gas for execution
             /\ last'.err = Nil =>
                    PointsUsed' = PointsUsed + ImportCharge + last'.gasProvided
                                      - metering'.gasForExecution
       /\ CreateEntered =>
             /\ ~runtime.active.readOnly
             /\ LentTo' = PointsUsed + ImportCharge
                              + runtime'.active.vmInput.gasProvided
       /\ CreateReturns =>
             /\ runtime' = Top.pre.runtime
             /\ PointsUsed' = IF last'.err # Nil THEN LentTo
                              ELSE LentTo - GasLeft(H)]_vars

\* a deployment whose init function ran has given gas back to its caller
C29_Witness ==
    /\ InGuest /\ last.op = "CreateNewContract" /\ last.err = Nil
    /\ "gasProvided" \notin DOMAIN last
    /\ PointsUsed < 1 + MaxGas

(***************************************************************************)
(* Properties of getPendingAsyncCalls, checked under SpecAsync.            *)
(***************************************************************************)
IsPending(c) == c.status = "AsyncCallPending"
\* the position in q of its n-th pending call
NthPending(q, n) ==
    CHOOSE k \in DOMAIN q :
        IsPending(q[k]) /\ Cardinality({j \in 1..k : IsPending(q[j])}) = n
\* p holds the pending calls of q, and only them, in the order q has them
PendingOf(p, q) ==
    /\ Len(p) = Cardinality({k \in DOMAIN q : IsPending(q[k])})
    /\ \A n \in DOMAIN p : p[n] = q[NthPending(q, n)]
\* r is what the claim says getPendingAsyncCalls returns for the input i
IsPendingMapOf(r, i) ==
    /\ i # NilInfo
    /\ r.panic = Nil
    /\ r.info.callerAddr = i.callerAddr
    /\ r.info.returnData = i.returnData
    /\ DOMAIN r.info.asyncContextMap =
           {id \in DOMAIN i.asyncContextMap :
               \E k \in DOMAIN i.asyncContextMap[id].asyncCalls :
                   IsPending(i.asyncContextMap[id].asyncCalls[k])}
    /\ \A id \in DOMAIN r.info.asyncContextMap :
           /\ r.info.asyncContextMap[id].callback = i.asyncContextMap[id].callback
           /\ PendingOf(r.info.asyncContextMap[id].asyncCalls,
                        i.asyncContextMap[id].asyncCalls)
\* the infos the next step of processAsyncInfo hands to getPendingAsyncCalls
PendingInputs ==
    IF InHost("processAsyncInfo", "afterCall") THEN {Top.ret.asyncInfo}
    ELSE IF InHost("processAsyncInfo", "loop") /\ Top.todo = <<>>
    THEN {AsyncInfoOf(H)}
    ELSE {}

\* C30: getPendingAsyncCalls returns a map that holds exactly the calls of
\* its input whose status is Pending, under their context identifier and
\* in their order, no entry for a context without a pending call, with the
\* input's caller address and return data and each context's callback.
C30_PendingMap ==
    \A i \in PendingInputs : IsPendingMapOf(getPendingAsyncCalls(i), i)

\* the same for the inputs that are not nil
PendingMapOfNonNilInput ==
    \A i \in PendingInputs \ {NilInfo} : IsPendingMapOf(getPendingAsyncCalls(i), i)

\* the function is handed an info with a pending call after a call that is
\* not pending
C30_Witness ==
    \E i \in PendingInputs \ {NilInfo} :
        \E id \in DOMAIN i.asyncContextMap :
            LET q == i.asyncContextMap[id].asyncCalls IN
            /\ Len(q) = 2 /\ ~IsPending(q[1]) /\ IsPending(q[2])
            /\ IsPendingMapOf(getPendingAsyncCalls(i), i)

(***************************************************************************)
(* Properties of the gas arithmetic of the metering context, checked under *)
(* SpecGas.                                                                *)
(***************************************************************************)
\* the function named was applied by the step
Applied(op) == last'.op = op

\* C31: deductInitialGas computes initialCost = baseCost + len(code) *
\* costPerByte; when that is more than the input's GasProvided it returns
\* ErrNotEnoughGas and leaves initialCost and gasForExecution as they were;
\* otherwise, the two being equal included, it sets initialCost and
\* gasForExecution = GasProvided - initialCost, so that the two add up to
\* GasProvided.
C31_DeductInitialGas ==
    [][Applied("deductInitialGas") =>
          LET gasProvided == runtime.active.vmInput.gasProvided
              initialCost == GetCodeCost + last'.codeLength * AoTPreparePerByte
          IN IF initialCost > gasProvided
             THEN /\ last'.err = "ErrNotEnoughGas"
                  /\ metering'.initialCost = metering.initialCost
                  /\ metering'.gasForExecution = metering.gasForExecution
             ELSE /\ last'.err = Nil
                  /\ metering'.initialCost = initialCost
                  /\ metering'.gasForExecution = gasProvided - initialCost
                  /\ metering'.initialCost + metering'.gasForExecution
                         = gasProvided]_vars

\* the initial cost was the whole of the gas provided
C31_Witness ==
    /\ last.op = "deductInitialGas" /\ last.err = Nil
    /\ metering.initialCost = runtime.active.vmInput.gasProvided
    /\ metering.initialCost > 0 /\ metering.gasForExecution = 0

\* C32: UseGasBounded(g) fails with ErrNotEnoughGas exactly when g is more
\* than GasLeft(), the points used staying as they were; when g is at most
\* GasLeft(), the two being equal included, it succeeds and the points used
\* grow by exactly g.
C32_UseGasBounded ==
    [][Applied("UseGasBounded") =>
          IF last'.gasToUse > GasLeft(H)
          THEN /\ last'.err = "ErrNotEnoughGas"
               /\ GetPointsUsed(H') = GetPointsUsed(H)
          ELSE /\ last'.err = Nil
               /\ GetPointsUsed(H') = GetPointsUsed(H) + last'.gasToUse]_vars

\* what the code does: the gas left must be more than the gas to use
UseGasBoundedNeedsMore ==
    [][Applied("UseGasBounded") =>
          IF last'.gasToUse >= GasLeft(H)
          THEN /\ last'.err = "ErrNotEnoughGas"
               /\ GetPointsUsed(H') = GetPointsUsed(H)
          ELSE /\ last'.err = Nil
               /\ GetPointsUsed(H') = GetPointsUsed(H) + last'.gasToUse]_vars

\* UseGasBounded has refused to use exactly the gas that is left
C32_Witness ==
    /\ last.op = "UseGasBounded" /\ last.err = "ErrNotEnoughGas"
    /\ last.gasToUse = GasLeft(H) /\ GetPointsUsed(H) > 0

(***************************************************************************)
(* Properties of the state stacks of the metering and runtime contexts,    *)
(* checked under SpecStates.                                               *)
(***************************************************************************)
\* the context the run is on, before and after the step
Context == H[Top.context]
ContextAfter == H'[Top.context]

\* C33: for the metering and the runtime context, PushState, any change of
\* the active state, then PopSetActiveState leave the active state as it
\* was at the push (metering: initialGasProvided, initialCost,
\* gasForExecution and the per-account gas map; runtime: SC address,
\* function, VM input, read-only flag) and the stack at its depth before
\* the push; changing the active state after a push does not change the
\* snapshot.
C33_PushThenPopSetActiveState ==
    [][/\ Context.stateStack = Top.pushed
       /\ (Applied("PopSetActiveState") /\ Top.pushed # <<>>) =>
             /\ ActiveOf(H', Top.context) = Last(Top.pushed)
             /\ ContextAfter.stateStack = Front(Top.pushed)]_vars

\* the metering state changed after the push, per-account gas map
\* included, and was set back
C33_Witness ==
    /\ last.op = "PopSetActiveState" /\ last.changed /\ Top.context = "metering"
    /\ Top.accountings > 0 /\ Top.pushes > 0 /\ metering.stateStack = <<>>
    /\ metering.gasUsedByAccounts = EmptyMap /\ metering.initialCost > 0

\* the gas used of an address in a per-account map, 0 when it has none
GasUsedOf(used, address) == IF address \in DOMAIN used THEN used[address] ELSE 0
\* C34: the metering PopMergeActiveState pops the top snapshot, sets
\* initialGasProvided, initialCost and gasForExecution to the snapshot's,
\* and sets the gas used of every address to the sum of its value in the
\* active state and its value in the snapshot, an address held by one of
\* the two only keeping that value.
C34_PopMergeActiveState ==
    [][(Applied("PopMergeActiveState") /\ Top.pushed # <<>>) =>
          LET prevState == Last(Top.pushed) IN
          /\ metering'.stateStack = Front(Top.pushed)
          /\ metering'.initialGasProvided = prevState.initialGasProvided
          /\ metering'.initialCost = prevState.initialCost
          /\ metering'.gasForExecution = prevState.gasForExecution
          /\ DOMAIN metering'.gasUsedByAccounts =
                 DOMAIN metering.gasUsedByAccounts
                     \cup DOMAIN prevState.gasUsedByAccounts
          /\ \A address \in DOMAIN metering'.gasUsedByAccounts :
                 metering'.gasUsedByAccounts[address] =
                     GasUsedOf(metering.gasUsedByAccounts, address)
                         + GasUsedOf(prevState.gasUsedByAccounts, address)]_vars

\* a merge has happened after an accounting before the push and one after
C34_Witness ==
    /\ last.op = "PopMergeActiveState" /\ last.depth > 0 /\ last.changed
    /\ Top.accountings >= 2
    /\ GasUsedOf(metering.gasUsedByAccounts, "A") >= 2
    /\ metering.initialCost > 0

PopOps == {"PopSetActiveState", "PopDiscard", "PopMergeActiveState"}

C36_InitStateFromContractCallInput ==
    [][Applied("InitStateFromContractCallInput") =>
          LET given == last'.vmInput
              input == runtime'.active.vmInput
          IN /\ given.callType = "AsynchronousCallBack" =>
                    /\ input.gasProvided = given.gasProvided + given.gasLocked
                    /\ input.gasLocked = 0
                    /\ input = [given EXCEPT !.gasProvided = input.gasProvided,
                                             !.gasLocked = 0]
             /\ given.callType # "AsynchronousCallBack" => input = given
             /\ metering'.initialGasProvided = input.gasProvided
             /\ metering'.gasForExecution = input.gasProvided
             /\ metering'.initialCost = 0]_vars

\* the locked gas of a callback became gas for its execution
C36_Witness ==
    /\ last.op = "InitStateFromContractCallInput"
    /\ last.vmInput.callType = "AsynchronousCallBack"
    /\ last.vmInput.gasLocked > 0
    /\ runtime.active.vmInput.gasLocked = 0
    /\ metering.gasForExecution = last.vmInput.gasProvided + last.vmInput.gasLocked
    /\ GetPointsUsed(H) = 0

Min(a, b) == IF a < b THEN a ELSE b
\* what the claim says of RestoreGas and GasLeft
RestoreGasAndGasLeftNeverUnderflow ==
    /\ GasLeft(H) = IF metering.gasForExecution - GetPointsUsed(H) >= 0
                    THEN metering.gasForExecution - GetPointsUsed(H) ELSE 0
    /\ Applied("RestoreGas") =>
           GetPointsUsed(H') = IF last'.gas <= GetPointsUsed(H)
                               THEN GetPointsUsed(H) - last'.gas
                               ELSE GetPointsUsed(H)

\* C37: gas arithmetic never underflows: RestoreGas(g) subtracts g from
\* the points used when g is at most the points used and leaves them as
\* they are otherwise; GasLeft() is gasForExecution minus the points used
\* when that is not negative, 0 otherwise; BoundGasLimit(v), v an int64,
\* returns the smaller of GasLeft() and uint64(v), never more than
\* GasLeft(): for a negative v that is GasLeft().
C37_GasNeverUnderflows ==
    [][/\ RestoreGasAndGasLeftNeverUnderflow
       /\ Applied("BoundGasLimit") =>
             /\ last'.limit = Min(GasLeft(H), ToUint64(last'.value))
             /\ last'.limit <= GasLeft(H)
             /\ last'.value < 0 => last'.limit = GasLeft(H)]_vars

\* C37 as it is written: BoundGasLimit(v) returns the smaller of GasLeft()
\* and v.
C37_AsWritten ==
    [][/\ RestoreGasAndGasLeftNeverUnderflow
       /\ Applied("BoundGasLimit") =>
             /\ last'.limit = Min(GasLeft(H), last'.value)
             /\ last'.limit <= GasLeft(H)]_vars

\* a negative limit was bounded by the gas that is left
C37_Witness ==
    /\ last.op = "BoundGasLimit" /\ last.value < 0
    /\ last.limit = GasLeft(H) /\ last.limit > 0 /\ GetPointsUsed(H) > 0

(***************************************************************************)
(* Properties of the final gas accounting, checked under SpecMeter.        *)
(***************************************************************************)
\* the first accounting of a dispatch that pushed no state and used no more
\* gas than it had for its execution
SuccessfulExecution ==
    /\ InMeter /\ Top.accountings = 0 /\ Top.pushes = 0
    /\ GetPointsUsed(H) <= metering.gasForExecution
    /\ last'.op = "UpdateGasStateOnSuccess"
\* the output accounts once the current one is made
AccountsAtAccounting == GetOutputAccounts(GetOutputAccount(H, GetContextAddress(H)))
GasForwardedBy(address) == getGasTransferredByAccount(AccountsAtAccounting[address])
\* what the claim attributes to the current account
AttributedToCurrentAccount ==
    LET current == GetContextAddress(H)
        others == DOMAIN AccountsAtAccounting \ {current}
    IN GasSpentByContract(H) - GasForwardedBy(current)
           - SumFun([a \in others |->
                        GasUsedOf(metering.gasUsedByAccounts, a) + GasForwardedBy(a)])

\* C38: updateSCGasUsed attributes to the current account the gas spent by
\* the contract (initialCost + points used) minus the gas the account
\* forwarded in its own output transfers, counted once, minus the gas used
\* and forwarded by all the other output accounts; with GasRemaining =
\* GasLeft() the check of UpdateGasStateOnSuccess passes for every
\* successful execution, one whose current account has output transfers
\* carrying gas included.
C38_CurrentAccountGasUsed ==
    [][SuccessfulExecution =>
          /\ metering'.gasUsedByAccounts[GetContextAddress(H)]
                 = AttributedToCurrentAccount
          /\ last'.gasRemaining = GasLeft(H)
          /\ last'.err = Nil]_vars

\* the same when the current account has no output transfer carrying gas
AccountingWithoutOwnTransfers ==
    [][(SuccessfulExecution /\ GasForwardedBy(GetContextAddress(H)) = 0) =>
          /\ metering'.gasUsedByAccounts[GetContextAddress(H)]
                 = AttributedToCurrentAccount
          /\ last'.err = Nil]_vars

\* the accounting of an execution within its gas failed, the current account
\* having an output transfer that carries gas
C38_Witness ==
    /\ last.op = "UpdateGasStateOnSuccess"
    /\ last.err = "ErrInputAndOutputGasDoesNotMatch"
    /\ Top.accountings = 1 /\ Top.pushes = 0
    /\ GetPointsUsed(H) <= metering.gasForExecution
    /\ getGasTransferredByAccount(output.active.accounts[GetContextAddress(H)]) > 0

(***************************************************************************)
(* Properties of the end of callSCMethod, checked under SpecDispatch.      *)
(***************************************************************************)
\* a dispatch of the given call type has returned
DispatchReturned(callType) ==
    /\ calls = <<>> /\ last.op = "RunSmartContractCall"
    /\ last.callType = callType
\* the guest function succeeded and the switch of callSCMethod ran
\* processAsyncInfo
RanProcessAsyncInfo == "paiErr" \in DOMAIN last
\* the callbacks the dispatch sent to its caller
CallbacksSent ==
    Cardinality({i \in DOMAIN last.events :
                    last.events[i].e = "sendCallbackToCurrentCaller"})

\* C39: in a top-level call of type AsynchronousCall whose guest function
\* succeeded, sendCallbackToCurrentCaller is invoked exactly once when
\* processAsyncInfo succeeds with an empty pending map, and is not invoked
\* when pending calls remain or when processAsyncInfo fails; in a call of
\* type DirectCall it is never invoked, and in a call of type
\* AsynchronousCallBack processAsyncInfo is not run.
C39_CallbackToCurrentCaller ==
    /\ DispatchReturned("AsynchronousCall") =>
          IF RanProcessAsyncInfo
          THEN /\ last.sent = IF last.paiErr = Nil /\ ~last.pending THEN 1
                              ELSE 0
               /\ CallbacksSent = IF last.sent = 1 /\ ~last.failed THEN 1
                                  ELSE 0
               /\ last.failed => last.sent = 1 /\ last.arisen = "ErrAsyncSend"
          ELSE last.failed /\ CallbacksSent = 0
    /\ DispatchReturned("DirectCall") =>
          /\ CallbacksSent = 0
          /\ IF RanProcessAsyncInfo THEN last.sent = 0 ELSE last.failed
    /\ DispatchReturned("AsynchronousCallBack") => ~RanProcessAsyncInfo
    /\ (InHost("processAsyncInfo", "loop") /\ Len(calls) = 2) =>
          runtime.active.vmInput.callType # "AsynchronousCallBack"

\* an asynchronous call whose guest registered no call that stays pending
\* has sent the callback to its caller, once
C39_Witness ==
    /\ DispatchReturned("AsynchronousCall") /\ RanProcessAsyncInfo
    /\ last.paiErr = Nil /\ ~last.pending /\ ~last.failed
    /\ last.sent = 1 /\ CallbacksSent = 1

====
